---- MODULE Spec2Model ----
(***************************************************************************)
(* Inbound-email-to-proposal pipeline of the RFP management backend:       *)
(* handleInboundEmail (controllers/inboundEmailController.ts),             *)
(* deleteProposal, the InboundEmail table and fallbackParseProposal.       *)
(* Strings are sequences of one-character strings; the regular             *)
(* expressions of the source are matched by a backtracking matcher with    *)
(* JavaScript's priorities (leftmost match, greedy/lazy order).            *)
(***************************************************************************)
EXTENDS Integers, Sequences, FiniteSets, TLC

NULL == "null"

----------------------------------------------------------------------------
(* Characters *)

Lower == {"a","b","c","d","e","f","g","h","i","j","k","l","m",
          "n","o","p","q","r","s","t","u","v","w","x","y","z"}

UpperOf == [c \in Lower |->
  CASE c = "a" -> "A" [] c = "b" -> "B" [] c = "c" -> "C" [] c = "d" -> "D"
    [] c = "e" -> "E" [] c = "f" -> "F" [] c = "g" -> "G" [] c = "h" -> "H"
    [] c = "i" -> "I" [] c = "j" -> "J" [] c = "k" -> "K" [] c = "l" -> "L"
    [] c = "m" -> "M" [] c = "n" -> "N" [] c = "o" -> "O" [] c = "p" -> "P"
    [] c = "q" -> "Q" [] c = "r" -> "R" [] c = "s" -> "S" [] c = "t" -> "T"
    [] c = "u" -> "U" [] c = "v" -> "V" [] c = "w" -> "W" [] c = "x" -> "X"
    [] c = "y" -> "Y" [] c = "z" -> "Z"]

Upper == {UpperOf[c] : c \in Lower}

Digit == {"0","1","2","3","4","5","6","7","8","9"}

\* \s of a JavaScript regular expression, and the characters trim() removes
Space == {" ", "\n", "\t", "\r"}

Punct == {":", "-", ".", ",", "<", ">", "&", ";", "@", "/", "\"", "$", "{", "}"}

\* the rupee sign U+20B9, one character
Rupee == "rupee"
\* the grave accent U+0060, one character
Backtick == "backtick"

Char == Lower \cup Upper \cup Digit \cup Space \cup Punct \cup {Rupee, Backtick}

\* String.prototype.toLowerCase on one character
LowerChar(c) ==
  IF c \in Upper THEN CHOOSE l \in Lower : UpperOf[l] = c ELSE c

toLowerCase(s) == [i \in 1..Len(s) |-> LowerChar(s[i])]

DigitVal(c) ==
  CASE c = "0" -> 0 [] c = "1" -> 1 [] c = "2" -> 2 [] c = "3" -> 3
    [] c = "4" -> 4 [] c = "5" -> 5 [] c = "6" -> 6 [] c = "7" -> 7
    [] c = "8" -> 8 [] c = "9" -> 9

----------------------------------------------------------------------------
(* Regular expressions: abstract syntax *)

ReSet(S)    == [t |-> "set", s |-> S]
ReEps       == [t |-> "eps"]
ReCat(a, b) == [t |-> "cat", a |-> a, b |-> b]
ReAlt(a, b) == [t |-> "alt", a |-> a, b |-> b]
ReStar(a)   == [t |-> "star", a |-> a]
ReLazy(a)   == [t |-> "lazy", a |-> a]
ReCap(a)    == [t |-> "cap", a |-> a]
RePlus(a)   == ReCat(a, ReStar(a))
ReLazyPlus(a) == ReCat(a, ReLazy(a))
ReOpt(a)    == ReAlt(a, ReEps)

RECURSIVE ReSeq(_)
ReSeq(rs) ==
  IF Len(rs) = 0 THEN ReEps
  ELSE IF Len(rs) = 1 THEN rs[1]
  ELSE ReCat(rs[1], ReSeq(Tail(rs)))

RECURSIVE ReTimes(_, _)
ReTimes(a, n) == IF n = 0 THEN ReEps ELSE IF n = 1 THEN a ELSE ReCat(a, ReTimes(a, n - 1))

\* one literal character
ReLit(c) == ReSet({c})

\* one literal character under the i flag
ReCI(c) ==
  IF c \in Lower THEN ReSet({c, UpperOf[c]})
  ELSE IF c \in Upper THEN ReSet({c, LowerChar(c)})
  ELSE ReSet({c})

\* a literal word, case-sensitive / under the i flag
ReWord(w)   == ReSeq([i \in 1..Len(w) |-> ReLit(w[i])])
ReWordCI(w) == ReSeq([i \in 1..Len(w) |-> ReCI(w[i])])

\* . (any character but a line terminator), [^...]
ReDot       == ReSet(Char \ {"\n", "\r"})
ReNot(S)    == ReSet(Char \ S)

----------------------------------------------------------------------------
(* Regular expressions: backtracking matcher.  A result is <<end, cap>>    *)
(* with cap = <<from, to>> the capture group's span (<<0, 0>>: unset);     *)
(* results come in the order in which a backtracking engine tries them.    *)

NoCap == <<0, 0>>

RECURSIVE ReMatch(_, _, _, _)
RECURSIVE ReThen(_, _, _)
RECURSIVE ReLoop(_, _, _)

\* for each result of rs in order, the results of re from there
ReThen(rs, re, s) ==
  IF Len(rs) = 0 THEN <<>>
  ELSE ReMatch(re, s, rs[1][1], rs[1][2]) \o ReThen(Tail(rs), re, s)

\* the iterations of a loop that consumed at least one character
ReLoop(rs, i, acc) ==
  IF Len(rs) = 0 THEN acc
  ELSE ReLoop(Tail(rs), i, IF rs[1][1] > i THEN Append(acc, rs[1]) ELSE acc)

\* the results of a capture group that started at i
ReCapture(rs, i) == [k \in 1..Len(rs) |-> <<rs[k][1], <<i, rs[k][1]>> >>]

\* a greedy loop over one character class: the class holds for n characters
\* from i on, and the loop ends after n of them, n - 1 of them, ..., none
RunLen(S, s, i) == Cardinality({m \in i..Len(s) : \A k \in i..m : s[k] \in S})
ReRun(n, i, cap) == [k \in 1..(n + 1) |-> <<i + n + 1 - k, cap>>]

ReMatch(re, s, i, cap) ==
  CASE re.t = "set" ->
         IF i <= Len(s) /\ s[i] \in re.s THEN << <<i + 1, cap>> >> ELSE <<>>
    [] re.t = "eps" -> << <<i, cap>> >>
    [] re.t = "cat" -> ReThen(ReMatch(re.a, s, i, cap), re.b, s)
    [] re.t = "alt" -> ReMatch(re.a, s, i, cap) \o ReMatch(re.b, s, i, cap)
    [] re.t = "star" /\ re.a.t = "set" -> ReRun(RunLen(re.a.s, s, i), i, cap)
    [] re.t = "star" /\ re.a.t # "set" ->
         ReThen(ReLoop(ReMatch(re.a, s, i, cap), i, <<>>), re, s) \o << <<i, cap>> >>
    [] re.t = "lazy" ->
         << <<i, cap>> >> \o ReThen(ReLoop(ReMatch(re.a, s, i, cap), i, <<>>), re, s)
    [] re.t = "cap" -> ReCapture(ReMatch(re.a, s, i, cap), i)

NotFound == [found |-> FALSE, from |-> 0, to |-> 0, cap |-> NoCap]
ReResult(j, r) == [found |-> TRUE, from |-> j, to |-> r[1], cap |-> r[2]]
ReLeftmost(re, s, starts) ==
  IF starts = {} THEN NotFound
  ELSE ReResult(CHOOSE x \in starts : \A y \in starts : x <= y,
                ReMatch(re, s, CHOOSE x \in starts : \A y \in starts : x <= y, NoCap)[1])

\* the leftmost match at or after position i: [found, from, to, cap]
ReSearchFrom(re, s, i) ==
  ReLeftmost(re, s, {j \in i..(Len(s) + 1) : Len(ReMatch(re, s, j, NoCap)) > 0})

\* String.prototype.match with a non-global pattern
ReSearch(re, s) == ReSearchFrom(re, s, 1)

\* match[1] of a successful match
Group1(m, s) == SubSeq(s, m.cap[1], m.cap[2] - 1)

\* String.prototype.replace with a global pattern and a literal replacement
RECURSIVE ReplaceFrom(_, _, _, _)
\* the text from i on with the match m (the leftmost from i) and all later ones replaced
ReplaceStep(re, s, rep, i, m) ==
  IF ~m.found THEN SubSeq(s, i, Len(s))
  ELSE IF m.to > m.from
  THEN SubSeq(s, i, m.from - 1) \o rep \o ReplaceFrom(re, s, rep, m.to)
  ELSE \* an empty match: the next character is kept and the search moves on
       SubSeq(s, i, m.from - 1) \o rep
         \o (IF m.from <= Len(s) THEN <<s[m.from]>> ELSE <<>>)
         \o ReplaceFrom(re, s, rep, m.from + 1)

ReplaceFrom(re, s, rep, i) ==
  IF i > Len(s) + 1 THEN <<>> ELSE ReplaceStep(re, s, rep, i, ReSearchFrom(re, s, i))

ReplaceAll(re, s, rep) == ReplaceFrom(re, s, rep, 1)

RECURSIVE FirstMatch(_, _)
\* mutant: the loop without its break, the last pattern that matches decides
LastMatchStep(patterns, s, m) ==
  IF m.found /\ Len(FirstMatch(Tail(patterns), s)) = 0 THEN <<Group1(m, s)>>
  ELSE FirstMatch(Tail(patterns), s)

\* for (const pattern of patterns) { match = s.match(pattern); if (match) ... break }
\* <<>> when no pattern matches, else <<match[1]>> of the first that does
FirstMatchStep(patterns, s, m) ==
  IF m.found THEN <<Group1(m, s)>> ELSE FirstMatch(Tail(patterns), s)
FirstMatch(patterns, s) ==
  IF Len(patterns) = 0 THEN <<>>
  ELSE FirstMatchStep(patterns, s, ReSearch(patterns[1], s))

\* String.prototype.trim
RECURSIVE TrimLeft(_)
TrimLeft(s) == IF Len(s) > 0 /\ s[1] \in Space THEN TrimLeft(Tail(s)) ELSE s
RECURSIVE TrimRight(_)
TrimRight(s) ==
  IF Len(s) > 0 /\ s[Len(s)] \in Space THEN TrimRight(SubSeq(s, 1, Len(s) - 1)) ELSE s
trim(s) == TrimRight(TrimLeft(s))

\* String.prototype.substring(0, n)
substring0(s, n) == SubSeq(s, 1, IF Len(s) < n THEN Len(s) ELSE n)

\* String.prototype.includes for one character
includes(s, c) == \E i \in 1..Len(s) : s[i] = c

----------------------------------------------------------------------------
(* inboundEmailController.ts: extractEmailAddress, extractRFPId *)

\* /<(.+?)>/
FromPattern == ReSeq(<<ReLit("<"), ReCap(ReLazyPlus(ReDot)), ReLit(">")>>)

FromAddress(fromField, m) ==
  IF m.found THEN trim(toLowerCase(Group1(m, fromField)))
  ELSE trim(toLowerCase(fromField))

extractEmailAddress(fromField) == FromAddress(fromField, ReSearch(FromPattern, fromField))

\* [a-f0-9] under the i flag
Hex == ReSet({"a","b","c","d","e","f","A","B","C","D","E","F"} \cup Digit)

\* ([a-f0-9]{8}-[a-f0-9]{4}-[a-f0-9]{4}-[a-f0-9]{4}-[a-f0-9]{12})
UuidGroup ==
  ReCap(ReSeq(<<ReTimes(Hex, 8), ReLit("-"), ReTimes(Hex, 4), ReLit("-"),
                ReTimes(Hex, 4), ReLit("-"), ReTimes(Hex, 4), ReLit("-"),
                ReTimes(Hex, 12)>>))

\* [:\s-]+
Sep == RePlus(ReSet({":", "-"} \cup Space))

\* /RFP\s*ID\s*[:\s-]+(uuid)/i
pattern1 ==
  ReSeq(<<ReWordCI(<<"r","f","p">>), ReStar(ReSet(Space)), ReWordCI(<<"i","d">>),
          ReStar(ReSet(Space)), Sep, UuidGroup>>)
\* /RFP[:\s-]+(uuid)/i
pattern2 == ReSeq(<<ReWordCI(<<"r","f","p">>), Sep, UuidGroup>>)
\* /(uuid)/i
pattern3 == UuidGroup

\* mutant: pattern3 alone, the first UUID wherever it stands
extractAnyUuid(subject, body) == FirstMatch(<<pattern3>>, subject \o <<" ">> \o body)

\* the first of pattern1, pattern2, pattern3 that matches decides;
\* the result is <<>> for null and <<id>> for an id
extractRFPId(subject, body) ==
  FirstMatch(<<pattern1, pattern2, pattern3>>, subject \o <<" ">> \o body)

----------------------------------------------------------------------------
(* inboundEmailController.ts, STEP 4: the HTML-to-text replace chain *)

\* /<style[^>]*>.*?<\/style>/gi
StyleRe ==
  ReSeq(<<ReLit("<"), ReWordCI(<<"s","t","y","l","e">>), ReStar(ReNot({">"})),
          ReLit(">"), ReLazy(ReDot), ReLit("<"), ReLit("/"),
          ReWordCI(<<"s","t","y","l","e">>), ReLit(">")>>)
\* /<script[^>]*>.*?<\/script>/gi
ScriptRe ==
  ReSeq(<<ReLit("<"), ReWordCI(<<"s","c","r","i","p","t">>), ReStar(ReNot({">"})),
          ReLit(">"), ReLazy(ReDot), ReLit("<"), ReLit("/"),
          ReWordCI(<<"s","c","r","i","p","t">>), ReLit(">")>>)
\* /<[^>]+>/g
TagRe == ReSeq(<<ReLit("<"), RePlus(ReNot({">"})), ReLit(">")>>)

\* the .replace(...) calls of lines 97-105, in order: <<pattern, replacement>>
HtmlSteps ==
  << <<StyleRe, <<>> >>, <<ScriptRe, <<>> >>, <<TagRe, <<" ">> >>,
     <<ReWord(<<"&","n","b","s","p",";">>), <<" ">> >>,
     <<ReWord(<<"&","q","u","o","t",";">>), <<"\"">> >>,
     <<ReWord(<<"&","a","m","p",";">>), <<"&">> >>,
     <<ReWord(<<"&","l","t",";">>), <<"<">> >>,
     <<ReWord(<<"&","g","t",";">>), <<">">> >>,
     <<RePlus(ReSet(Space)), <<" ">> >> >>

RECURSIVE ReplaceChain(_, _)
ReplaceChain(steps, s) ==
  IF Len(steps) = 0 THEN s
  ELSE ReplaceChain(Tail(steps), ReplaceAll(steps[1][1], s, steps[1][2]))

htmlToText(emailBody) == trim(ReplaceChain(HtmlSteps, emailBody))

\* lines 94-107: the chain runs when the body holds no '<' and the email has html
convertBody(emailBody, hasHtml) ==
  IF ~includes(emailBody, "<") /\ hasHtml THEN htmlToText(emailBody) ELSE emailBody

----------------------------------------------------------------------------
(* utils/fallbackParser.ts *)

NotesLen == 500
TermsLen == 100

\* (?:rs\.?|inr|₹)
Currency ==
  ReAlt(ReCat(ReWordCI(<<"r","s">>), ReOpt(ReLit("."))),
        ReAlt(ReWordCI(<<"i","n","r">>), ReLit(Rupee)))
\* ([\d,]+(?:\.\d{2})?)
Amount ==
  ReCap(ReCat(RePlus(ReSet(Digit \cup {","})),
              ReOpt(ReSeq(<<ReLit("."), ReSet(Digit), ReSet(Digit)>>))))
\* [:\s]+ and \s* and \s+
ColonSp == RePlus(ReSet({":"} \cup Space))
Sp0 == ReStar(ReSet(Space))
Sp1 == RePlus(ReSet(Space))
\* (\d+)
Digits == ReCap(RePlus(ReSet(Digit)))
\* days? and years?
Days  == ReCat(ReWordCI(<<"d","a","y">>), ReOpt(ReCI("s")))
Years == ReCat(ReWordCI(<<"y","e","a","r">>), ReOpt(ReCI("s")))
\* ([^\n.]+)
Clause == ReCap(RePlus(ReNot({"\n", "."})))

\* word[:\s]+(?:rs\.?|inr|₹)?\s*(amount)
Labelled(w) == ReSeq(<<ReWordCI(w), ColonSp, ReOpt(Currency), Sp0, Amount>>)

pricePatterns ==
  << Labelled(<<"t","o","t","a","l">>),
     ReSeq(<<Currency, Sp0, Amount, Sp0, ReWordCI(<<"t","o","t","a","l">>)>>),
     Labelled(<<"p","r","i","c","e">>),
     Labelled(<<"c","o","s","t">>) >>

deliveryPatterns ==
  << ReSeq(<<ReWordCI(<<"d","e","l","i","v","e","r","y">>), ColonSp, Digits, Sp0, Days>>),
     ReSeq(<<Digits, Sp0, Days, Sp1, ReWordCI(<<"d","e","l","i","v","e","r","y">>)>>),
     ReSeq(<<ReWordCI(<<"t","i","m","e","l","i","n","e">>), ColonSp, Digits, Sp0, Days>>) >>

warrantyPatterns ==
  << ReSeq(<<ReWordCI(<<"w","a","r","r","a","n","t","y">>), ColonSp, Digits, Sp0, Years>>),
     ReSeq(<<Digits, Sp0, Years, Sp1, ReWordCI(<<"w","a","r","r","a","n","t","y">>)>>) >>

paymentPatterns ==
  << ReSeq(<<ReWordCI(<<"p","a","y","m","e","n","t">>), ColonSp, Clause>>),
     ReSeq(<<ReWordCI(<<"t","e","r","m","s">>), ColonSp, Clause>>) >>

\* the value of a string of decimal digits
RECURSIVE DecValue(_)
DecValue(ds) ==
  IF Len(ds) = 0 THEN 0
  ELSE 10 * DecValue(SubSeq(ds, 1, Len(ds) - 1)) + DigitVal(ds[Len(ds)])

RECURSIVE DigitPrefix(_)
DigitPrefix(s) ==
  IF Len(s) > 0 /\ s[1] \in Digit THEN <<s[1]>> \o DigitPrefix(Tail(s)) ELSE <<>>

\* parseInt on a string
parseInt(s) == DecValue(DigitPrefix(s))

\* parseFloat on the longest prefix of digits and an optional fraction, as a
\* number of hundredths; NaN when the prefix holds no digit
FloatOf(ip, fp) ==
  IF Len(ip) = 0 /\ Len(fp) = 0 THEN [nan |-> TRUE, cents |-> 0]
  ELSE [nan |-> FALSE,
        cents |-> 100 * DecValue(ip) + DecValue(SubSeq(fp \o <<"0", "0">>, 1, 2))]
Fraction(rest) ==
  IF Len(rest) > 0 /\ rest[1] = "." THEN DigitPrefix(Tail(rest)) ELSE <<>>
FloatFrom(s, ip) == FloatOf(ip, Fraction(SubSeq(s, Len(ip) + 1, Len(s))))
parseFloat(s) == FloatFrom(s, DigitPrefix(s))

\* the fields of extractedData from the matches (<<>>: no pattern matched)
PriceOf(match) ==
  IF Len(match) = 0 THEN <<>>
  ELSE <<parseFloat(ReplaceAll(ReLit(","), match[1], <<>>))>>
IntOf(match) == IF Len(match) = 0 THEN <<>> ELSE <<parseInt(match[1])>>
TermsOf(match) ==
  IF Len(match) = 0 THEN <<>> ELSE <<substring0(trim(match[1]), TermsLen)>>

fallbackParseProposal(emailBody) ==
  [ items         |-> <<>>,
    totalPrice    |-> PriceOf(FirstMatch(pricePatterns, emailBody)),
    deliveryDays  |-> IntOf(FirstMatch(deliveryPatterns, emailBody)),
    paymentTerms  |-> TermsOf(FirstMatch(paymentPatterns, emailBody)),
    warrantyYears |-> IntOf(FirstMatch(warrantyPatterns, emailBody)),
    notes         |-> substring0(emailBody, NotesLen) ]

----------------------------------------------------------------------------
(* services/aiService.ts: scoreProposal.  Numbers are records [nan, h]: NaN, *)
(* or the number h / 100.                                                  *)

NaN == [nan |-> TRUE, h |-> 0]
Num(h) == [nan |-> FALSE, h |-> h]

\* the results of re at position 1 that end at the end of s
FullMatches(re, s) == SelectSeq(ReMatch(re, s, 1, NoCap), LAMBDA r : r[1] = Len(s) + 1)

\* a decimal literal [+-]?digits[.digits] as a number, from its sign and the rest
SignedOf(neg, f) == IF f.nan THEN NaN ELSE Num(IF neg THEN 0 - f.cents ELSE f.cents)
Signed(s) ==
  IF Len(s) > 0 /\ s[1] \in {"-", "+"} THEN SignedOf(s[1] = "-", parseFloat(Tail(s)))
  ELSE SignedOf(FALSE, parseFloat(s))

\* lines 363-367: the code fences /```json\n?/g, /```\n?/g and /```/g are removed
Fence == ReWord(<<Backtick, Backtick, Backtick>>)
ScoreCleanup ==
  << <<ReSeq(<<Fence, ReWord(<<"j","s","o","n">>), ReOpt(ReLit("\n"))>>), <<>> >>,
     <<ReCat(Fence, ReOpt(ReLit("\n"))), <<>> >>,
     <<Fence, <<>> >> >>
cleanup(text) == trim(ReplaceChain(ScoreCleanup, trim(text)))

\* /\{[\s\S]*\}/
JsonMatchRe == ReSeq(<<ReLit("{"), ReStar(ReSet(Char)), ReLit("}")>>)
\* lines 370-373: text = jsonMatch[0] when the pattern matches
JsonMatchOf(text, m) == IF m.found THEN SubSeq(text, m.from, m.to - 1) ELSE text
extractJson(text) == JsonMatchOf(text, ReSearch(JsonMatchRe, text))

\* JSON.parse on the texts of the responses below: a scalar, or an object
\* that is empty or has the one member "score" with a scalar value; numbers
\* have no exponent and strings no escape
JsonNumber ==
  ReSeq(<<ReOpt(ReLit("-")),
          ReAlt(ReLit("0"), ReCat(ReSet(Digit \ {"0"}), ReStar(ReSet(Digit)))),
          ReOpt(ReCat(ReLit("."), RePlus(ReSet(Digit))))>>)
JsonString == ReSeq(<<ReLit("\""), ReStar(ReNot({"\"", "\n", "\r", "\t"})), ReLit("\"")>>)
JsonScalar ==
  ReAlt(JsonNumber,
  ReAlt(JsonString,
  ReAlt(ReWord(<<"t","r","u","e">>),
  ReAlt(ReWord(<<"f","a","l","s","e">>), ReWord(<<"n","u","l","l">>)))))
JsonObject ==
  ReSeq(<<Sp0, ReLit("{"), Sp0,
          ReOpt(ReSeq(<<ReWord(<<"\"","s","c","o","r","e","\"">>), Sp0, ReLit(":"), Sp0,
                        ReCap(JsonScalar), Sp0>>)),
          ReLit("}"), Sp0>>)
JsonTopScalar == ReSeq(<<Sp0, ReCap(JsonScalar), Sp0>>)

\* a JSON value: [k, n, s] with k the kind, n the number, s the string
Missing == [k |-> "undefined", n |-> NaN, s |-> <<>>]
JsonValue(v) ==
  IF v[1] = "\"" THEN [k |-> "string", n |-> NaN, s |-> SubSeq(v, 2, Len(v) - 1)]
  ELSE IF v[1] \in Lower THEN [k |-> IF v[1] = "n" THEN "null" ELSE IF v[1] = "t" THEN "true" ELSE "false",
                               n |-> NaN, s |-> <<>>]
  ELSE [k |-> "number", n |-> Signed(v), s |-> <<>>]

\* the value captured by the first full match, Missing when the group is unset
CapturedValue(text, r) ==
  IF r[2] = NoCap THEN Missing ELSE JsonValue(SubSeq(text, r[2][1], r[2][2] - 1))

\* [ok: the text is JSON; object: it is an object; score: the member score
\* of the object, or the scalar itself]
JsonParsed(text, objs, scalars) ==
  IF Len(objs) > 0 THEN [ok |-> TRUE, object |-> TRUE, score |-> CapturedValue(text, objs[1])]
  ELSE IF Len(scalars) > 0
  THEN [ok |-> TRUE, object |-> FALSE, score |-> CapturedValue(text, scalars[1])]
  ELSE [ok |-> FALSE, object |-> FALSE, score |-> Missing]
JSONparse(text) ==
  JsonParsed(text, FullMatches(JsonObject, text), FullMatches(JsonTopScalar, text))

\* ToBoolean of a JSON value
Truthy(v) ==
  CASE v.k = "number" -> v.n.h # 0
    [] v.k = "string" -> Len(v.s) > 0
    [] v.k = "true" -> TRUE
    [] OTHER -> FALSE

\* ToNumber of a string: white space is trimmed, the empty string is 0, a
\* decimal literal is its value, anything else NaN
StringNumeric ==
  ReSeq(<<ReOpt(ReSet({"-", "+"})), RePlus(ReSet(Digit)),
          ReOpt(ReCat(ReLit("."), ReStar(ReSet(Digit))))>>)
StringToNumber(t) ==
  IF Len(t) = 0 THEN Num(0)
  ELSE IF Len(FullMatches(StringNumeric, t)) > 0 THEN Signed(t) ELSE NaN

\* ToNumber of a JSON value
ToNumber(v) ==
  CASE v.k = "number" -> v.n
    [] v.k = "string" -> StringToNumber(trim(v.s))
    [] v.k = "true" -> Num(100)
    [] v.k = "undefined" -> NaN
    [] OTHER -> Num(0)

\* Math.max and Math.min of a number and a value that may be NaN
MathMax(a, x) == IF x.nan THEN NaN ELSE IF x.h < 100 * a THEN Num(100 * a) ELSE x
MathMin(a, x) == IF x.nan THEN NaN ELSE IF x.h > 100 * a THEN Num(100 * a) ELSE x

\* x || 0
OrZero(v) == IF Truthy(v) THEN v ELSE [k |-> "number", n |-> Num(0), s |-> <<>>]

\* line 396: Math.min(100, Math.max(0, scoringData.score || 0))
finalScore(score) == MathMin(100, MathMax(0, ToNumber(OrZero(score))))

\* a / b <= c / 10 for numbers a, b # 0 and c
RatioAtMost(a, b, c) == IF b > 0 THEN 10 * a <= c * b ELSE 10 * a >= c * b

\* x && y for optional numbers (<<>>: undefined): both are there and not 0
Both(x, y) == Len(x) > 0 /\ Len(y) > 0 /\ x[1] # 0 /\ y[1] # 0

\* lines 423-432
PricePoints(rfpData, proposalData) ==
  IF Both(rfpData.budget, proposalData.totalPrice)
  THEN IF RatioAtMost(proposalData.totalPrice[1], rfpData.budget[1], 10) THEN 30
       ELSE IF RatioAtMost(proposalData.totalPrice[1], rfpData.budget[1], 11) THEN 20
       ELSE IF RatioAtMost(proposalData.totalPrice[1], rfpData.budget[1], 12) THEN 10
       ELSE 5
  ELSE 15

\* lines 434-443
DeliveryPoints(rfpData, proposalData) ==
  IF Both(rfpData.deliveryDays, proposalData.deliveryDays)
  THEN IF proposalData.deliveryDays[1] - rfpData.deliveryDays[1] <= 0 THEN 20
       ELSE IF proposalData.deliveryDays[1] - rfpData.deliveryDays[1] <= 5 THEN 15
       ELSE IF proposalData.deliveryDays[1] - rfpData.deliveryDays[1] <= 10 THEN 10
       ELSE 5
  ELSE 10

\* lines 417-468
calculateFallbackScore(rfpData, proposalData) ==
  PricePoints(rfpData, proposalData) + DeliveryPoints(rfpData, proposalData)
    + (IF proposalData.items > 0 THEN 20 ELSE 10)
    + (IF proposalData.paymentTerms THEN 8 ELSE 0)
    + (IF proposalData.warranty THEN 7 ELSE 0)
    + (IF proposalData.additionalServices > 0 THEN 10 ELSE 5)

\* what the model answers: response.text() of generateContent
ScoreTexts ==
  {
    \* a score in range
    <<"{","\"","s","c","o","r","e","\"",":","8","5","}">>,
    \* a score above the range, in a code fence
    <<Backtick,Backtick,Backtick,"j","s","o","n","\n","{","\"","s","c","o","r","e","\"",":"," ","1","5","0","}","\n",Backtick,Backtick,Backtick>>,
    \* a score below the range
    <<"{","\"","s","c","o","r","e","\"",":","-","5","}">>,
    \* no score
    <<"{","}">>,
    \* a null score
    <<"{","\"","s","c","o","r","e","\"",":","n","u","l","l","}">>,
    \* a score in words
    <<"{","\"","s","c","o","r","e","\"",":","\"","h","i","g","h","\"","}">>,
    \* a score as a string of digits
    <<"{","\"","s","c","o","r","e","\"",":","\""," ","8","5"," ","\"","}">>,
    \* a boolean score
    <<"{","\"","s","c","o","r","e","\"",":","t","r","u","e","}">>,
    \* a fraction, with text around the object
    <<"o","k"," ","{","\"","s","c","o","r","e","\"",":","8","5",".","5","}"," ",".">>,
    \* no JSON
    <<"s","c","o","r","e"," ","8","5">>,
    \* a truncated object
    <<"{","\"","s","c","o","r","e","\"",":","8","5">>,
    \* the JSON null
    <<"n","u","l","l">>,
    \* a JSON number
    <<"7">> }

\* cleanup, the JSON match and JSON.parse on the answers above, computed once
ScoreParsed == [t \in ScoreTexts |-> JSONparse(extractJson(cleanup(t)))]

\* the arguments of scoreProposal: undefined is <<>>, items and
\* additionalServices are the lengths of the arrays
RfpDatas ==
  [budget : {<<>>, <<0>>, <<100>>}, deliveryDays : {<<>>, <<10>>}]
ProposalDatas ==
  [totalPrice : {<<>>, <<100>>, <<110>>, <<120>>, <<121>>},
   deliveryDays : {<<>>, <<10>>, <<15>>, <<20>>, <<21>>},
   items : {0, 2}, paymentTerms : BOOLEAN, warranty : BOOLEAN,
   additionalServices : {0, 1}]

----------------------------------------------------------------------------
(* services/aiService.ts: generateFallbackStructuredRFP.  An undefined     *)
(* field is <<>>, a field with value v is <<v>>.                            *)

\* does s contain the word w?
Contains(s, w) == \E i \in 1..(Len(s) - Len(w) + 1) : SubSeq(s, i, i + Len(w) - 1) = w

\* parseInt on a string that may start with no digit
parseIntNaN(s) == IF Len(DigitPrefix(s)) = 0 THEN NaN ELSE Num(100 * parseInt(s))

\* lines 738-741: /^([^.!?\n]+)/ decides the title
TitleRe == ReCap(RePlus(ReNot({".", "!", "?", "\n"})))
TitleOf(prompt, rs) ==
  IF Len(rs) > 0 THEN substring0(trim(SubSeq(prompt, rs[1][2][1], rs[1][2][2] - 1)), 100)
  ELSE trim(substring0(prompt, 50)) \o <<".", ".", ".">>
rfpTitle(prompt) == TitleOf(prompt, ReMatch(TitleRe, prompt, 1, NoCap))

\* \$? and ([\d,]+)
Dollar == ReOpt(ReLit("$"))
Commas == ReCap(RePlus(ReSet(Digit \cup {","})))

\* lines 745-752
budgetPatterns ==
  << ReSeq(<<ReWordCI(<<"b","u","d","g","e","t">>), Sp1, ReWordCI(<<"i","s">>), Sp1, Dollar, Commas>>),
     ReSeq(<<ReWordCI(<<"b","u","d","g","e","t">>), ColonSp, Dollar, Commas>>),
     ReSeq(<<ReLit("$"), Sp0, Commas, Sp1, ReWordCI(<<"t","o","t","a","l">>)>>),
     ReSeq(<<ReLit("$"), Sp0, Commas, Sp0, ReWordCI(<<"b","u","d","g","e","t">>)>>),
     ReSeq(<<ReWordCI(<<"u","p">>), Sp1, ReWordCI(<<"t","o">>), Sp1, Dollar, Commas>>),
     ReSeq(<<ReWordCI(<<"m","a","x","i","m","u","m">>), Sp1, Dollar, Commas>>) >>

\* lines 754-760
BudgetOf(match) ==
  IF Len(match) = 0 THEN <<>> ELSE <<parseIntNaN(ReplaceAll(ReLit(","), match[1], <<>>))>>
rfpBudget(prompt) == BudgetOf(FirstMatch(budgetPatterns, prompt))

\* lines 764-768: /(\d+)\s*days?/i, /(\d+)\s*weeks?/i, /(\d+)\s*months?/i
DaysRe   == ReSeq(<<Digits, Sp0, Days>>)
WeeksRe  == ReSeq(<<Digits, Sp0, ReWordCI(<<"w","e","e","k">>), ReOpt(ReCI("s"))>>)
MonthsRe == ReSeq(<<Digits, Sp0, ReWordCI(<<"m","o","n","t","h">>), ReOpt(ReCI("s"))>>)

\* lines 770-783: the first pattern that matches decides, weeks count 7 days
\* and months 30
DeliveryOf(prompt, d, w, m) ==
  IF d.found THEN <<parseInt(Group1(d, prompt))>>
  ELSE IF w.found THEN <<parseInt(Group1(w, prompt)) * 7>>
  ELSE IF m.found THEN <<parseInt(Group1(m, prompt)) * 30>>
  ELSE <<>>
rfpDeliveryDays(prompt) ==
  DeliveryOf(prompt, ReSearch(DaysRe, prompt), ReSearch(WeeksRe, prompt),
             ReSearch(MonthsRe, prompt))

\* lines 786-802
rfpPaymentTerms(lowerPrompt) ==
  IF Contains(lowerPrompt, <<"n","e","t"," ","3","0">>) THEN <<"Net 30">>
  ELSE IF Contains(lowerPrompt, <<"n","e","t"," ","6","0">>) THEN <<"Net 60">>
  ELSE IF Contains(lowerPrompt, <<"u","p","f","r","o","n","t">>) \/ Contains(lowerPrompt, <<"a","d","v","a","n","c","e">>)
  THEN <<"Payment in advance">>
  ELSE IF Contains(lowerPrompt, <<"c","o","d">>) \/ Contains(lowerPrompt, <<"c","a","s","h"," ","o","n"," ","d","e","l","i","v","e","r","y">>)
  THEN <<"Cash on Delivery">>
  ELSE <<>>

\* lines 805-809
rfpWarrantyPatterns ==
  << ReSeq(<<ReOpt(ReSeq(<<ReWordCI(<<"a","t">>), Sp1, ReWordCI(<<"l","e","a","s","t">>), Sp1>>)),
             Digits, Sp0, Years, Sp0, ReWordCI(<<"w","a","r","r","a","n","t","y">>)>>),
     ReSeq(<<ReWordCI(<<"w","a","r","r","a","n","t","y">>), ColonSp, Digits, Sp0, Years>>),
     ReSeq(<<Digits, Sp0, ReWordCI(<<"y","e","a","r">>), Sp0, ReWordCI(<<"w","a","r","r","a","n","t","y">>)>>) >>

\* lines 811-818
rfpWarrantyYears(prompt) == IntOf(FirstMatch(rfpWarrantyPatterns, prompt))

\* word followed by s?
Plural(w) == ReCat(ReWordCI(w), ReOpt(ReCI("s")))

\* lines 828-829: /(\d+)\s+(laptops?|monitors?|...|projectors?)/gi; the
\* capture is the second group, the first is the digits the match starts with
itemPattern1 ==
  ReSeq(<<RePlus(ReSet(Digit)), Sp1,
          ReCap(
            ReAlt(Plural(<<"l","a","p","t","o","p">>), ReAlt(Plural(<<"m","o","n","i","t","o","r">>), ReAlt(Plural(<<"d","e","s","k","t","o","p">>),
            ReAlt(Plural(<<"c","o","m","p","u","t","e","r">>), ReAlt(Plural(<<"t","a","b","l","e","t">>), ReAlt(Plural(<<"p","h","o","n","e">>),
            ReAlt(Plural(<<"k","e","y","b","o","a","r","d">>), ReAlt(ReWordCI(<<"m","i","c","e">>), ReAlt(Plural(<<"p","r","i","n","t","e","r">>),
            ReAlt(Plural(<<"s","c","a","n","n","e","r">>), ReAlt(Plural(<<"r","o","u","t","e","r">>), ReAlt(Plural(<<"s","w","i","t","c","h","e">>),
            ReAlt(Plural(<<"s","e","r","v","e","r">>), ReAlt(Plural(<<"c","h","a","i","r">>), ReAlt(Plural(<<"d","e","s","k">>),
                  Plural(<<"p","r","o","j","e","c","t","o","r">>)))))))))))))))))>>)

\* lines 839-844: the singular, lower case
Singular(name) ==
  IF name = <<"m","i","c","e">> THEN <<"m","o","u","s","e">>
  ELSE IF Len(name) > 0 /\ name[Len(name)] = "s" THEN SubSeq(name, 1, Len(name) - 1)
  ELSE name

\* name.charAt(0).toUpperCase() + name.slice(1)
Capitalize(name) ==
  IF Len(name) = 0 THEN name
  ELSE <<IF name[1] \in Lower THEN UpperOf[name[1]] ELSE name[1]>> \o Tail(name)

\* lines 860-877: the patterns of the specifications
RamRe == ReSeq(<<Digits, Sp0, ReWordCI(<<"g","b">>), Sp0, ReWordCI(<<"r","a","m">>)>>)
SsdRe == ReSeq(<<Digits, Sp0, ReWordCI(<<"g","b">>), Sp0, ReWordCI(<<"s","s","d">>)>>)
ProcessorRe ==
  ReCap(ReAlt(ReSeq(<<ReWordCI(<<"i","n","t","e","l">>), Sp1, ReCI("i"), RePlus(ReSet(Digit))>>),
        ReAlt(ReSeq(<<ReWordCI(<<"a","m","d">>), Sp1, ReWordCI(<<"r","y","z","e","n">>), Sp1, RePlus(ReSet(Digit))>>),
              ReSeq(<<ReCI("m"), RePlus(ReSet(Digit)), Sp1,
                      ReOpt(ReAlt(ReWordCI(<<"p","r","o">>), ReWordCI(<<"m","a","x">>)))>>))))
ScreenRe == ReSeq(<<Digits, ReLit("-"), ReWordCI(<<"i","n","c","h">>)>>)
ResolutionRe ==
  ReCap(ReAlt(ReWordCI(<<"4","k">>), ReAlt(ReWordCI(<<"1","0","8","0","p">>), ReAlt(ReWordCI(<<"1","4","4","0","p">>),
        ReAlt(ReWordCI(<<"2","k">>), ReSeq(<<ReWordCI(<<"f","u","l","l">>), Sp0, ReWordCI(<<"h","d">>)>>))))))

\* a specification: the match with a suffix
Suffixed(match, suffix) == IF Len(match) = 0 THEN <<>> ELSE <<match[1] \o suffix>>

NoSpecs ==
  [ram |-> <<>>, storage |-> <<>>, processor |-> <<>>, screenSize |-> <<>>,
   resolution |-> <<>>, description |-> <<>>]

\* lines 853-879: the specifications found in the 200 characters from the match
SpecsIn(itemContext) ==
  [ ram        |-> Suffixed(FirstMatch(<<RamRe>>, itemContext), <<"G","B">>),
    storage    |-> Suffixed(FirstMatch(<<SsdRe>>, itemContext), <<"G","B"," ","S","S","D">>),
    processor  |-> FirstMatch(<<ProcessorRe>>, itemContext),
    screenSize |-> Suffixed(FirstMatch(<<ScreenRe>>, itemContext), <<"-","i","n","c","h">>),
    resolution |-> FirstMatch(<<ResolutionRe>>, itemContext),
    description |-> <<>> ]

\* Object.keys(specs).length > 0 ? specs : undefined
SpecsOrNone(specs) == IF specs = NoSpecs THEN <<>> ELSE <<specs>>

Item(name, quantity, specifications) ==
  [name |-> name, quantity |-> quantity, specifications |-> specifications]

\* lines 834-886: the exec loop; seen holds the names found so far
RECURSIVE ItemsFrom(_, _, _, _)
ItemsStep(prompt, m, seen, items) ==
  IF ~m.found THEN items
  ELSE IF Singular(toLowerCase(Group1(m, prompt))) \in seen
  THEN ItemsFrom(prompt, m.to, seen, items)
  ELSE ItemsFrom(prompt, m.to, seen \cup {Singular(toLowerCase(Group1(m, prompt)))},
         Append(items,
           Item(Capitalize(Singular(toLowerCase(Group1(m, prompt)))),
                parseIntNaN(SubSeq(prompt, m.from, m.to - 1)),
                SpecsOrNone(SpecsIn(SubSeq(prompt, m.from,
                  IF Len(prompt) < m.from + 199 THEN Len(prompt) ELSE m.from + 199))))))
ItemsFrom(prompt, i, seen, items) ==
  IF i > Len(prompt) + 1 THEN items
  ELSE ItemsStep(prompt, ReSearchFrom(itemPattern1, prompt, i), seen, items)

\* line 891: /(\d+)\s+([a-z]{3,}(?:\s+[a-z]+)?)/gi; the capture is the second group
Letter == ReSet(Lower \cup Upper)
genericPattern ==
  ReSeq(<<RePlus(ReSet(Digit)), Sp1,
          ReCap(ReSeq(<<Letter, Letter, Letter, ReStar(Letter),
                        ReOpt(ReCat(Sp1, RePlus(Letter)))>>))>>)

\* line 892 and slice(0, 3): the first n matches from position i
RECURSIVE MatchesFrom(_, _, _, _)
MatchesStep(re, s, m, n) ==
  IF ~m.found THEN <<>> ELSE <<m>> \o MatchesFrom(re, s, m.to, n - 1)
MatchesFrom(re, s, i, n) ==
  IF n = 0 \/ i > Len(s) + 1 THEN <<>> ELSE MatchesStep(re, s, ReSearchFrom(re, s, i), n)

skipWords == {<<"d","a","y","s">>, <<"d","a","y">>, <<"y","e","a","r","s">>, <<"y","e","a","r">>, <<"t","o","t","a","l">>, <<"l","e","a","s","t">>, <<"i","n","c","h">>}

\* lines 894-920
RECURSIVE GenericItems(_, _)
GenericStep(prompt, ms, name, quantity) ==
  IF toLowerCase(name) \notin skipWords /\ ~quantity.nan
     /\ quantity.h > 0 /\ quantity.h < 100 * 10000
  THEN <<Item(Capitalize(name), quantity, <<>>)>> \o GenericItems(prompt, Tail(ms))
  ELSE GenericItems(prompt, Tail(ms))
GenericItems(prompt, ms) ==
  IF Len(ms) = 0 THEN <<>>
  ELSE GenericStep(prompt, ms, trim(Group1(ms[1], prompt)),
                   parseIntNaN(SubSeq(prompt, ms[1].from, ms[1].to - 1)))

\* lines 923-931
DefaultItems(prompt) ==
  << Item(<<"P","r","o","c","u","r","e","m","e","n","t"," ","I","t","e","m">>, Num(100),
          <<[NoSpecs EXCEPT !.description = <<substring0(prompt, 200)>>]>>) >>

\* lines 820-931: the three ways to the items, in order
ItemsOr(first, second, third) ==
  IF Len(first) > 0 THEN first ELSE IF Len(second) > 0 THEN second ELSE third
rfpItems(prompt) ==
  ItemsOr(ItemsFrom(prompt, 1, {}, <<>>),
          GenericItems(prompt, MatchesFrom(genericPattern, prompt, 1, 3)),
          DefaultItems(prompt))

\* lines 934-950
rfpRequirements(lowerPrompt) ==
  (IF Contains(lowerPrompt, <<"w","a","r","r","a","n","t","y">>) THEN <<"Warranty coverage required">> ELSE <<>>)
  \o (IF Contains(lowerPrompt, <<"s","u","p","p","o","r","t">>) \/ Contains(lowerPrompt, <<"m","a","i","n","t","e","n","a","n","c","e">>)
      THEN <<"Technical support and maintenance">> ELSE <<>>)
  \o (IF Contains(lowerPrompt, <<"t","r","a","i","n","i","n","g">>) THEN <<"Training and documentation">> ELSE <<>>)
  \o (IF Contains(lowerPrompt, <<"i","n","s","t","a","l","l","a","t","i","o","n">>) \/ Contains(lowerPrompt, <<"s","e","t","u","p">>)
      THEN <<"Installation and setup services">> ELSE <<>>)

\* additionalRequirements.length > 0 ? additionalRequirements : undefined
ListOrNone(list) == IF Len(list) = 0 THEN <<>> ELSE <<list>>

\* lines 732-973
generateFallbackStructuredRFP(prompt) ==
  [ title         |-> rfpTitle(prompt),
    description   |-> prompt,
    items         |-> rfpItems(prompt),
    budget        |-> rfpBudget(prompt),
    deliveryDays  |-> rfpDeliveryDays(prompt),
    paymentTerms  |-> rfpPaymentTerms(toLowerCase(prompt)),
    warrantyYears |-> rfpWarrantyYears(prompt),
    additionalRequirements |-> ListOrNone(rfpRequirements(toLowerCase(prompt))) ]

\* lines 51-54: the code fences /```json\n?/g and /```\n?/g are removed
RfpCleanup ==
  << <<ReSeq(<<Fence, ReWord(<<"j","s","o","n">>), ReOpt(ReLit("\n"))>>), <<>> >>,
     <<ReCat(Fence, ReOpt(ReLit("\n"))), <<>> >> >>
rfpCleanup(text) == trim(ReplaceChain(RfpCleanup, trim(text)))

\* the nesting of arrays and objects up to which JSON.parse is modelled
JsonDepth == 3

\* a JSON value of nesting up to n: a scalar, an array or an object
RECURSIVE JsonValueRe(_)
JsonList(item) ==
  ReOpt(ReSeq(<<item, Sp0, ReStar(ReSeq(<<ReLit(","), Sp0, item, Sp0>>))>>))
JsonValueRe(n) ==
  IF n = 0 THEN JsonScalar
  ELSE ReAlt(JsonScalar,
       ReAlt(ReSeq(<<ReLit("["), Sp0, JsonList(JsonValueRe(n - 1)), ReLit("]")>>),
             ReSeq(<<ReLit("{"), Sp0,
                     JsonList(ReSeq(<<JsonString, Sp0, ReLit(":"), Sp0, JsonValueRe(n - 1)>>)),
                     ReLit("}")>>)))
JsonText == ReSeq(<<Sp0, JsonValueRe(JsonDepth), Sp0>>)

\* does JSON.parse accept the text?
JsonValid(text) == Len(FullMatches(JsonText, text)) > 0

\* the value JSON.parse returns, as the text without the white space
\* between its tokens
RECURSIVE Compact(_, _)
Compact(text, inString) ==
  IF Len(text) = 0 THEN <<>>
  ELSE IF text[1] = "\"" THEN <<text[1]>> \o Compact(Tail(text), ~inString)
  ELSE IF text[1] \in Space /\ ~inString THEN Compact(Tail(text), inString)
  ELSE <<text[1]>> \o Compact(Tail(text), inString)

\* lines 48-57 on the answer: the parsed value, <<>> when JSON.parse throws
RfpParse(text) == IF JsonValid(text) THEN <<Compact(text, FALSE)>> ELSE <<>>

\* what the model answers
RfpTexts ==
  { \* the RFP as JSON
    <<"{","\"","t","i","t","l","e","\"",":","\"","a","\"",","," ","\"","i","t","e","m","s","\"",":","[","{","\"","n","a","m","e","\"",":","\"","b","\"",",","\"","q","u","a","n","t","i","t","y","\"",":","2","}","]","}">>,
    \* JSON in a code fence
    <<Backtick,Backtick,Backtick,"j","s","o","n","\n","{","\"","t","i","t","l","e","\"",":","\"","a","\"","}","\n",Backtick,Backtick,Backtick>>,
    \* prose before the JSON
    <<"o","k",":"," ","{","\"","t","i","t","l","e","\"",":","\"","a","\"","}">>,
    \* a truncated answer
    <<"{","\"","t","i","t","l","e","\"",":","\"","a","\"",",","\"","i","t","e","m","s","\"",":","[">>,
    \* an empty answer
    <<>>,
    \* the JSON null
    <<"n","u","l","l">> }

\* the procurement requests
Prompts ==
  { <<"2","0"," ","l","a","p","t","o","p","s"," ","1","6","G","B"," ","R","A","M","."," ","B","u","d","g","e","t"," ","i","s"," ","$","5",",","0","0","0">>,
    <<"?","5"," ","m","i","c","e",","," ","2"," ","d","e","s","k","s"," ","2"," ","w","e","e","k","s",","," ","5"," ","M","i","c","e",","," ","b","u","d","g","e","t",":"," ",",">>,
    <<"1","2"," ","r","e","d"," ","c","h","a","i","r","s"," ","u","p"," ","t","o"," ","9","0","0"," ","t","o","t","a","l",","," ","4"," ","d","a","y","."," ","C","O","D">>,
    <<"1"," ","p","h","o","n","e",","," ","M","2"," ","P","r","o"," ","6","-","i","n","c","h"," ","4","K"," ","6","4"," ","G","B"," ","S","S","D">>,
    <<"w","a","r","r","a","n","t","y",":"," ","2"," ","y","e","a","r","s",","," ","n","e","t"," ","3","0"," ","a","n","d"," ","s","e","t","u","p">>,
    <<>> }

\* cleanup and JSON.parse on the answers, the fallback on the requests, computed once
RfpParsed == [t \in RfpTexts |-> RfpParse(rfpCleanup(t))]
FallbackRfp == [p \in Prompts |-> generateFallbackStructuredRFP(p)]

----------------------------------------------------------------------------
(* The store: the records the handlers read and write *)

MaxDeliveries == 2   \* executions of handleInboundEmail
MaxDeletes == 1      \* executions of deleteProposal

Deliveries == 1..MaxDeliveries
Deletes == 1..MaxDeletes

NoId == 0            \* a null reference to a Proposal or an InboundEmail

\* primary keys are generated and never repeat: the rows one delivery creates
\* get keys of their own
EmailKey(d) == d
AiProposalKey(d) == 2 * d - 1
FallbackProposalKey(d) == 2 * d
\* a key no Proposal ever has
MissingKey == 2 * MaxDeliveries + 1

RfpA == <<"1","2","3","4","5","6","7","8","-","a","b","c","d","-","0","0","0","0",
          "-","1","1","1","1","-","a","a","a","a","b","b","b","b","c","c","c","c">>
RfpB == <<"9","9","9","9","9","9","9","9","-","A","B","C","D","-","0","0","0","0",
          "-","2","2","2","2","-","d","d","d","d","e","e","e","e","f","f","f","f">>
RfpGone == <<"0","0","0","0","0","0","0","0","-","0","0","0","0","-","0","0","0","0",
             "-","0","0","0","0","-","0","0","0","0","0","0","0","0","0","0","0","0">>

\* RequestForProposal rows (ids) and Vendor rows (id, email)
Rfps == {RfpA, RfpB}
Vendors == { [id |-> "v1", email |-> <<"a","@","x">>],
             [id |-> "v2", email |-> <<"b","@","x">>] }

\* the (rfpId, vendorId) pairs that have an RFPVendor row
RfpVendorKeys == { <<RfpA, "v1">>, <<RfpA, "v2">>, <<RfpB, "v1">> }

VARIABLES
  inboundEmails,  \* the InboundEmail table: a set of rows
  proposals,      \* the Proposal table: a set of rows
  rfpVendors,     \* the RFPVendor table: status of each (rfpId, vendorId) row
  req,            \* req[d]: the locals and position of delivery d's handler
  del,            \* del[k]: the locals and position of deleteProposal call k
  ai,             \* the arguments, position and result of a call of AIService
  call            \* the arguments, position and result of a call of a helper

vars == <<inboundEmails, proposals, rfpVendors, req, del, ai, call>>

\* rfpService.getRFPById
getRFPById(rfpId) == IF rfpId \in Rfps THEN <<rfpId>> ELSE <<>>

\* vendorService.getVendorByEmail
getVendorByEmail(email) ==
  IF \E v \in Vendors : v.email = email
  THEN <<(CHOOSE v \in Vendors : v.email = email).id>> ELSE <<>>

ProposalIds == {p.id : p \in proposals}

\* mutant: the table without its unique index on emailId
EmailIdNotChecked(rows, emailId) == TRUE

\* InboundEmail_emailId_key: the unique index on emailId lets this insert through
EmailIdFree(rows, emailId) == \A e \in rows : e.emailId # emailId

\* prismaClient.inboundEmail.create with the table's defaults
inboundEmailCreate(rows, id, data) ==
  rows \cup { [ id |-> id, emailId |-> data.emailId, from |-> data.from,
                subject |-> data.subject, rawBody |-> data.rawBody,
                rfpId |-> data.rfpId, vendorId |-> data.vendorId,
                processed |-> data.processed, processingError |-> NULL,
                proposalId |-> NoId ] }

\* mutant: the table without its unique index on proposalId
ProposalIdNotUnique(rows, props, id, proposalId) == \E p \in props : p.id = proposalId

\* InboundEmail_proposalId_key and InboundEmail_proposalId_fkey let this update
\* of row id through: no other row holds the proposal, and the proposal exists
ProposalIdAllowed(rows, props, id, proposalId) ==
  /\ \A e \in rows : e.id # id => e.proposalId # proposalId
  /\ \E p \in props : p.id = proposalId

\* mutant: the update writes a whole row, so the columns data leaves out are reset
inboundEmailReplace(rows, id, data) ==
  { IF e.id = id
    THEN [f \in DOMAIN e |->
            IF f \in DOMAIN data THEN data[f]
            ELSE IF f \in {"id", "emailId"} THEN e[f]
            ELSE IF f \in {"from", "subject", "rawBody", "rfpId"} THEN <<>>
            ELSE IF f = "processed" THEN FALSE
            ELSE IF f = "proposalId" THEN NoId ELSE NULL]
    ELSE e : e \in rows }

\* prismaClient.inboundEmail.update({ where: { id }, data })
inboundEmailUpdate(rows, id, data) ==
  { IF e.id = id THEN [f \in DOMAIN e |-> IF f \in DOMAIN data THEN data[f] ELSE e[f]]
    ELSE e : e \in rows }

\* mutant: where: { rfpId } alone
rfpVendorUpdateByRfp(table, rfpId, vendorId, status) ==
  [k \in DOMAIN table |-> IF k[1] = rfpId THEN status ELSE table[k]]

\* prismaClient.rFPVendor.updateMany({ where: { rfpId, vendorId }, data: { status } })
rfpVendorUpdateMany(table, rfpId, vendorId, status) ==
  [k \in DOMAIN table |-> IF k = <<rfpId, vendorId>> THEN status ELSE table[k]]

\* mutant: InboundEmail_proposalId_fkey declared ON DELETE CASCADE
proposalDeleteRows(rows, id) == {e \in rows : e.proposalId # id}

\* prismaClient.proposal.delete with ON DELETE SET NULL of InboundEmail.proposalId
proposalDeleteCascade(rows, id) ==
  { IF e.proposalId = id THEN [e EXCEPT !.proposalId = NoId] ELSE e : e \in rows }

----------------------------------------------------------------------------
(* Inputs: webhook payloads and answers of the Resend receiving API.       *)
(* An absent or empty field is <<>>.                                      *)

SubjectRe == <<"R","e",":"," ","R","F","P"," ">>

Payloads ==
  { \* not an email.received event
    [type |-> "email.sent", email_id |-> "e0", from |-> <<"a","@","x">>,
     subject |-> <<>>, text |-> <<>>, html |-> <<>>],
    \* vendor v1 answers RFP A in plain text
    [type |-> "email.received", email_id |-> "e1",
     from |-> <<"B","o"," ","<","A","@","x",">">>, subject |-> SubjectRe \o RfpA,
     text |-> <<"t","o","t","a","l",":"," ","5","0">>, html |-> <<>>],
    \* vendor v2 answers RFP B in HTML only
    [type |-> "email.received", email_id |-> "e2", from |-> <<"b","@","x">>,
     subject |-> <<>>, text |-> <<>>,
     html |-> <<"<","b",">","R","F","P"," ","I","D",":">> \o RfpB \o <<"<","/","b",">">>],
    \* no content in the webhook: the body comes from the receiving API
    [type |-> "email.received", email_id |-> "e3", from |-> <<"a","@","x">>,
     subject |-> <<>>, text |-> <<>>, html |-> <<>>],
    \* no RFP id anywhere
    [type |-> "email.received", email_id |-> "e4", from |-> <<"a","@","x">>,
     subject |-> <<"h","i">>, text |-> <<"c","o","s","t",":"," ","7">>, html |-> <<>>],
    \* the id of an RFP that does not exist
    [type |-> "email.received", email_id |-> "e5", from |-> <<"a","@","x">>,
     subject |-> RfpGone, text |-> <<"h","i">>, html |-> <<>>],
    \* a sender that is no vendor
    [type |-> "email.received", email_id |-> "e6", from |-> <<"z","@","x">>,
     subject |-> RfpA, text |-> <<"h","i">>, html |-> <<>>],
    \* no sender
    [type |-> "email.received", email_id |-> "e7", from |-> <<>>,
     subject |-> RfpA, text |-> <<"h","i">>, html |-> <<>>],
    \* vendor v2 answers RFP A
    [type |-> "email.received", email_id |-> "e8", from |-> <<"b","@","x">>,
     subject |-> RfpA, text |-> <<"o","k">>, html |-> <<>>] }

\* resend.emails.receiving.get: throws, returns no data, or returns the email
ReceivedEmails ==
  { [kind |-> "throw", subject |-> <<>>, text |-> <<>>, html |-> <<>>],
    [kind |-> "nodata", subject |-> <<>>, text |-> <<>>, html |-> <<>>],
    [kind |-> "data", subject |-> <<>>, text |-> <<>>, html |-> <<>>],
    [kind |-> "data", subject |-> SubjectRe \o RfpA,
     text |-> <<"p","r","i","c","e",":"," "," ","9","&","a","m","p",";"," ">>,
     html |-> <<"<","p",">","9","<","/","p",">">>] }

\* what the LLM path stores as extractedData, aiScore and aiEvaluation
AiExtracted ==
  [ items |-> <<>>, totalPrice |-> <<[nan |-> FALSE, cents |-> 5000]>>,
    deliveryDays |-> <<14>>, paymentTerms |-> <<>>, warrantyYears |-> <<>>,
    notes |-> <<"a","i">> ]
AiScore == <<87>>

----------------------------------------------------------------------------
(* handleInboundEmail: one action for each await and what follows it up to *)
(* the next await or the response                                          *)

\* no webhook payload held
NoEmail ==
  [type |-> NULL, email_id |-> NULL, from |-> <<>>, subject |-> <<>>,
   text |-> <<>>, html |-> <<>>]

Idle ==
  [ pc |-> "idle", type |-> NULL, emailData |-> NoEmail, emailId |-> NULL, from |-> <<>>,
    subject |-> <<>>, receivedEmail |-> <<>>,
    emailBody |-> <<>>, rfpId |-> <<>>, vendorId |-> NULL, storedEmail |-> NoId,
    result |-> NoId, fallbackData |-> <<>>, fallbackProposal |-> NoId,
    resp |-> [status |-> 0, success |-> FALSE, message |-> NULL],
    llmCalls |-> 0, llmReturned |-> FALSE, created |-> {}, statusSet |-> {} ]

\* res.status(status).json({ success, ... }): the handler returns, and the
\* strings it held are gone
Respond(r, status, success, message) ==
  [r EXCEPT !.pc = "done", !.emailData = NoEmail, !.from = <<>>, !.subject = <<>>,
            !.emailBody = <<>>, !.fallbackData = <<>>,
            !.resp = [status |-> status, success |-> success, message |-> message]]

\* mutant: the outer catch answers 500, as deleteProposal's does
CaughtAs500(r) == Respond(r, 500, FALSE, "error")

\* mutant: no outer catch, the rejection of the async handler sends nothing
Uncaught(r) == [r EXCEPT !.pc = "rejected"]

\* lines 313-323: the outer catch
Caught(r) == Respond(r, 200, FALSE, "error")

\* emailData.text || emailData.html || ''
TextOrHtml(e) == IF Len(e.text) > 0 THEN e.text ELSE e.html

\* what lines 70-134 end in: a response, or the locals the handler goes on with
Stop(success, message) ==
  [message |-> message, success |-> success,
   from |-> <<>>, subject |-> <<>>, emailBody |-> <<>>, rfpId |-> <<>>]

\* lines 121-136: STEP 6
PrepareId(from, subject, emailBody, rfpId) ==
  IF Len(rfpId) = 0 THEN Stop(TRUE, "no RFP ID found")
  ELSE [message |-> NULL, success |-> TRUE, from |-> from, subject |-> subject,
        emailBody |-> emailBody, rfpId |-> rfpId[1]]

\* lines 112-119: STEP 5
PrepareBody(from, subject, emailBody) ==
  IF Len(from) = 0 \/ Len(emailBody) = 0
  THEN Stop(FALSE, "Missing required email fields")
  ELSE PrepareId(from, subject, emailBody, extractRFPId(subject, emailBody))

\* mutant: no STEP 3, the handler goes on with whatever body it has
PrepareAnyBody(emailData, fullEmail, body0) ==
  PrepareBody(emailData.from,
              IF Len(emailData.subject) > 0 THEN emailData.subject
              ELSE fullEmail.subject,
              convertBody(body0, Len(fullEmail.html) > 0))

\* lines 70-107: STEP 3 and STEP 4
Prepare(emailData, fullEmail, body0) ==
  IF Len(body0) = 0 \/ Len(trim(body0)) = 0
  THEN Stop(FALSE, "Email body not available")
  ELSE PrepareBody(emailData.from,
                   IF Len(emailData.subject) > 0 THEN emailData.subject
                   ELSE fullEmail.subject,
                   convertBody(body0, Len(fullEmail.html) > 0))

\* Prepare, fallbackParseProposal and extractEmailAddress on the inputs above,
\* computed once
PreparedWebhook == [p \in Payloads |-> Prepare(p, p, TextOrHtml(p))]
PreparedFetched ==
  [p \in Payloads, e \in ReceivedEmails |->
     IF e.kind = "data" THEN Prepare(p, e, TextOrHtml(e)) ELSE Prepare(p, p, <<>>)]
Bodies ==
  {PreparedWebhook[p].emailBody : p \in Payloads}
    \cup {PreparedFetched[p, e].emailBody : p \in Payloads, e \in ReceivedEmails}
FallbackParsed == [b \in Bodies |-> fallbackParseProposal(b)]
\* the subject and body the handler goes on with, and the RFP id in them
Texts ==
  {<<PreparedWebhook[p].subject, PreparedWebhook[p].emailBody>> : p \in Payloads}
    \cup {<<PreparedFetched[p, e].subject, PreparedFetched[p, e].emailBody>> :
             p \in Payloads, e \in ReceivedEmails}
RfpIdIn == [t \in Texts |-> extractRFPId(t[1], t[2])]
VendorEmailOf == [f \in {p.from : p \in Payloads} |-> extractEmailAddress(f)]

\* the handler goes on from Prepare's result
Prepared(r, x) ==
  IF x.message # NULL THEN Respond(r, 200, x.success, x.message)
  ELSE [r EXCEPT !.pc = "getRFP", !.emailData = NoEmail, !.from = x.from,
                 !.subject = x.subject, !.emailBody = x.emailBody, !.rfpId = x.rfpId]

\* mutant: the handler does not look at the type of the event
ReceiveAnyType(d) ==
  /\ req[d].pc = "idle"
  /\ d > 1 => req[d - 1].pc # "idle"
  /\ \E webhookPayload \in Payloads :
       LET r == [req[d] EXCEPT !.type = webhookPayload.type,
                               !.emailId = webhookPayload.email_id]
       IN  req' = [req EXCEPT ![d] =
             IF Len(webhookPayload.text) > 0 \/ Len(webhookPayload.html) > 0
             THEN Prepared(r, PreparedWebhook[webhookPayload])
             ELSE [r EXCEPT !.pc = "fetch", !.emailData = webhookPayload]]
  /\ UNCHANGED <<inboundEmails, proposals, rfpVendors, del, ai, call>>

\* lines 16-48: the webhook arrives (deliveries are numbered as they arrive)
Receive(d) ==
  /\ req[d].pc = "idle"
  /\ d > 1 => req[d - 1].pc # "idle"
  /\ \E webhookPayload \in Payloads :
       LET r == [req[d] EXCEPT !.type = webhookPayload.type,
                               !.emailId = webhookPayload.email_id]
       IN  req' = [req EXCEPT ![d] =
             IF webhookPayload.type # "email.received"
             THEN Respond([req[d] EXCEPT !.type = webhookPayload.type],
                          200, TRUE, "Ignored non-received event")
             ELSE IF Len(webhookPayload.text) > 0 \/ Len(webhookPayload.html) > 0
             THEN Prepared(r, PreparedWebhook[webhookPayload])
             ELSE [r EXCEPT !.pc = "fetch", !.emailData = webhookPayload]]
  /\ UNCHANGED <<inboundEmails, proposals, rfpVendors, del, ai, call>>

\* lines 49-68: await resend.emails.receiving.get(emailId)
Fetch(d) ==
  /\ req[d].pc = "fetch"
  /\ \E receivedEmail \in ReceivedEmails :
       req' = [req EXCEPT ![d] =
         Prepared([@ EXCEPT !.receivedEmail = <<receivedEmail>>],
                  PreparedFetched[@.emailData, receivedEmail])]
  /\ UNCHANGED <<inboundEmails, proposals, rfpVendors, del, ai, call>>

\* mutant: the handler goes on without checking that the RFP was found
GetRFPUnchecked(d) ==
  /\ req[d].pc = "getRFP"
  /\ \E throws \in BOOLEAN :
       req' = [req EXCEPT ![d] =
         IF throws THEN Caught(@) ELSE [@ EXCEPT !.pc = "getVendor"]]
  /\ UNCHANGED <<inboundEmails, proposals, rfpVendors, del, ai, call>>

\* lines 138-153: await rfpService.getRFPById(rfpId)
GetRFP(d) ==
  /\ req[d].pc = "getRFP"
  /\ \E throws \in BOOLEAN :
       req' = [req EXCEPT ![d] =
         IF throws THEN Caught(@)
         ELSE IF Len(getRFPById(@.rfpId)) = 0
         THEN Respond(@, 200, TRUE, "RFP not found")
         ELSE [@ EXCEPT !.pc = "getVendor"]]
  /\ UNCHANGED <<inboundEmails, proposals, rfpVendors, del, ai, call>>

\* mutant: the handler starts the extraction before it stores the email
GetVendorThenExtract(d) ==
  /\ req[d].pc = "getVendor"
  /\ \E throws \in BOOLEAN :
       LET vendor == getVendorByEmail(VendorEmailOf[req[d].from])
       IN  req' = [req EXCEPT ![d] =
             IF throws THEN Caught(@)
             ELSE IF Len(vendor) = 0
             THEN Respond(@, 200, TRUE, "no matching vendor found")
             ELSE [@ EXCEPT !.pc = "llm", !.vendorId = vendor[1]]]
  /\ UNCHANGED <<inboundEmails, proposals, rfpVendors, del, ai, call>>

\* mutant: the handler goes on without checking that a vendor was found
GetVendorUnchecked(d) ==
  /\ req[d].pc = "getVendor"
  /\ \E throws \in BOOLEAN :
       LET vendor == getVendorByEmail(VendorEmailOf[req[d].from])
       IN  req' = [req EXCEPT ![d] =
             IF throws THEN Caught(@)
             ELSE [@ EXCEPT !.pc = "create",
                            !.vendorId = IF Len(vendor) = 0 THEN NULL ELSE vendor[1]]]
  /\ UNCHANGED <<inboundEmails, proposals, rfpVendors, del, ai, call>>

\* lines 152-167: await vendorService.getVendorByEmail(vendorEmail)
GetVendor(d) ==
  /\ req[d].pc = "getVendor"
  /\ \E throws \in BOOLEAN :
       LET vendor == getVendorByEmail(VendorEmailOf[req[d].from])
       IN  req' = [req EXCEPT ![d] =
             IF throws THEN Caught(@)
             ELSE IF Len(vendor) = 0
             THEN Respond(@, 200, TRUE, "no matching vendor found")
             ELSE [@ EXCEPT !.pc = "create", !.vendorId = vendor[1]]]
  /\ UNCHANGED <<inboundEmails, proposals, rfpVendors, del, ai, call>>

\* lines 169-184: await prismaClient.inboundEmail.create
CreateEmail(d) ==
  /\ req[d].pc = "create"
  /\ \E throws \in BOOLEAN :
       IF throws \/ ~EmailIdFree(inboundEmails, req[d].emailId)
       THEN /\ req' = [req EXCEPT ![d] = Caught(@)]
            /\ UNCHANGED inboundEmails
       ELSE /\ inboundEmails' = inboundEmailCreate(inboundEmails, EmailKey(d),
                 [emailId |-> req[d].emailId, from |-> req[d].from,
                  subject |-> req[d].subject, rawBody |-> req[d].emailBody,
                  rfpId |-> req[d].rfpId, vendorId |-> req[d].vendorId,
                  processed |-> FALSE])
            /\ req' = [req EXCEPT ![d] = [@ EXCEPT !.pc = "llm", !.storedEmail = EmailKey(d)]]
  /\ UNCHANGED <<proposals, rfpVendors, del, ai, call>>

\* the RFPVendor rows that updateMany({ where: { rfpId, vendorId } }) matches
Matched(rfpId, vendorId) == {k \in RfpVendorKeys : k = <<rfpId, vendorId>>}

\* a Proposal row
ProposalRow(id, rfpId, vendorId, rawEmailBody, extractedData, aiScore, aiEvaluation, used) ==
  [ id |-> id, rfpId |-> rfpId, vendorId |-> vendorId, rawEmailBody |-> rawEmailBody,
    extractedData |-> extractedData, aiScore |-> aiScore,
    aiEvaluation |-> aiEvaluation, usedFallbackParsing |-> used ]

\* line 191: rfpService.processVendorProposal throws; the store is as it was
LlmThrow(d) ==
  /\ req[d].pc = "llm"
  /\ req' = [req EXCEPT ![d] = [@ EXCEPT !.pc = "fbCreate", !.llmCalls = @ + 1]]
  /\ UNCHANGED <<inboundEmails, proposals, rfpVendors, del, ai, call>>

\* line 191: rfpService.processVendorProposal returns { proposalId, ... }: it
\* has stored the extraction as a Proposal of the pair (a new row, or the row
\* the pair already had) and marked the pair RESPONDED
LlmReturn(d) ==
  /\ req[d].pc = "llm"
  /\ \/ /\ proposals' = proposals \cup
             { ProposalRow(AiProposalKey(d), req[d].rfpId, req[d].vendorId,
                           req[d].emailBody, AiExtracted, AiScore, "evaluation", FALSE) }
        /\ req' = [req EXCEPT ![d] =
             [@ EXCEPT !.pc = "update", !.llmCalls = @ + 1, !.llmReturned = TRUE,
                       !.result = AiProposalKey(d), !.created = @ \cup {AiProposalKey(d)},
                       !.statusSet = @ \cup Matched(req[d].rfpId, req[d].vendorId)]]
     \/ /\ \E p \in proposals :
             /\ p.rfpId = req[d].rfpId /\ p.vendorId = req[d].vendorId
             /\ req' = [req EXCEPT ![d] =
                  [@ EXCEPT !.pc = "update", !.llmCalls = @ + 1, !.llmReturned = TRUE,
                            !.result = p.id,
                            !.statusSet = @ \cup Matched(req[d].rfpId, req[d].vendorId)]]
        /\ UNCHANGED proposals
  /\ rfpVendors' = rfpVendorUpdateMany(rfpVendors, req[d].rfpId, req[d].vendorId, "RESPONDED")
  /\ UNCHANGED <<inboundEmails, del, ai, call>>

\* does the store refuse this update of InboundEmail row id?
UpdateRefused(id, proposalId) ==
  \/ \A e \in inboundEmails : e.id # id
  \/ ~ProposalIdAllowed(inboundEmails, proposals, id, proposalId)

\* lines 197-223: await prismaClient.inboundEmail.update, then the success response;
\* a throw lands in catch (aiError)
UpdateProcessed(d) ==
  /\ req[d].pc = "update"
  /\ \E throws \in BOOLEAN :
       IF throws \/ UpdateRefused(req[d].storedEmail, req[d].result)
       THEN /\ req' = [req EXCEPT ![d] = [@ EXCEPT !.pc = "fbCreate"]]
            /\ UNCHANGED inboundEmails
       ELSE /\ inboundEmails' = inboundEmailUpdate(inboundEmails, req[d].storedEmail,
                 [processed |-> TRUE, proposalId |-> req[d].result])
            /\ req' = [req EXCEPT ![d] =
                 Respond(@, 200, TRUE, "Proposal processed successfully")]
  /\ UNCHANGED <<proposals, rfpVendors, del, ai, call>>

\* mutant: the fallback proposal gets a score of 0 instead of none
FallbackRowScored(d, fallbackData) ==
  ProposalRow(FallbackProposalKey(d), req[d].rfpId, req[d].vendorId,
              req[d].emailBody, fallbackData, <<0>>, NULL, TRUE)

\* lines 238-248: the Proposal the fallback path creates
FallbackRow(d, fallbackData) ==
  ProposalRow(FallbackProposalKey(d), req[d].rfpId, req[d].vendorId,
              req[d].emailBody, fallbackData, <<>>, NULL, TRUE)

\* lines 225-248: catch (aiError): fallbackParseProposal, then
\* await prismaClient.proposal.create
FallbackCreate(d) ==
  /\ req[d].pc = "fbCreate"
  /\ LET fallbackData == FallbackParsed[req[d].emailBody]
     IN  \E throws \in BOOLEAN :
           IF throws
           THEN /\ req' = [req EXCEPT ![d] =
                     [@ EXCEPT !.pc = "errUpdate", !.fallbackData = <<fallbackData>>]]
                /\ UNCHANGED proposals
           ELSE /\ proposals' = proposals \cup {FallbackRow(d, fallbackData)}
                /\ req' = [req EXCEPT ![d] =
                     [@ EXCEPT !.pc = "fbStatus", !.fallbackData = <<fallbackData>>,
                               !.fallbackProposal = FallbackProposalKey(d),
                               !.created = @ \cup {FallbackProposalKey(d)}]]
  /\ UNCHANGED <<inboundEmails, rfpVendors, del, ai, call>>

\* lines 250-259: await prismaClient.rFPVendor.updateMany
FallbackStatus(d) ==
  /\ req[d].pc = "fbStatus"
  /\ \E throws \in BOOLEAN :
       IF throws
       THEN /\ req' = [req EXCEPT ![d] = [@ EXCEPT !.pc = "errUpdate"]]
            /\ UNCHANGED rfpVendors
       ELSE /\ rfpVendors' = rfpVendorUpdateMany(rfpVendors, req[d].rfpId,
                                                 req[d].vendorId, "RESPONDED")
            /\ req' = [req EXCEPT ![d] =
                 [@ EXCEPT !.pc = "fbUpdate",
                           !.statusSet = @ \cup Matched(req[d].rfpId, req[d].vendorId)]]
  /\ UNCHANGED <<inboundEmails, proposals, del, ai, call>>

\* lines 261-288: await prismaClient.inboundEmail.update, then the fallback response
FallbackUpdate(d) ==
  /\ req[d].pc = "fbUpdate"
  /\ \E throws \in BOOLEAN :
       IF throws \/ UpdateRefused(req[d].storedEmail, req[d].fallbackProposal)
       THEN /\ req' = [req EXCEPT ![d] = [@ EXCEPT !.pc = "errUpdate"]]
            /\ UNCHANGED inboundEmails
       ELSE /\ inboundEmails' = inboundEmailUpdate(inboundEmails, req[d].storedEmail,
                 [processed |-> TRUE, proposalId |-> req[d].fallbackProposal,
                  processingError |-> "AI quota exceeded. Used fallback parsing"])
            /\ req' = [req EXCEPT ![d] =
                 Respond(@, 200, TRUE, "Proposal created with fallback parsing")]
  /\ UNCHANGED <<proposals, rfpVendors, del, ai, call>>

\* lines 289-310: catch (fallbackError): await prismaClient.inboundEmail.update,
\* then the failure response; a throw lands in the outer catch
ErrorUpdate(d) ==
  /\ req[d].pc = "errUpdate"
  /\ \E throws \in BOOLEAN :
       IF throws \/ \A e \in inboundEmails : e.id # req[d].storedEmail
       THEN /\ req' = [req EXCEPT ![d] = Caught(@)]
            /\ UNCHANGED inboundEmails
       ELSE /\ inboundEmails' = inboundEmailUpdate(inboundEmails, req[d].storedEmail,
                 [processingError |-> "Both AI and fallback parsing failed"])
            /\ req' = [req EXCEPT ![d] =
                 Respond(@, 200, FALSE, "Failed to process vendor proposal")]
  /\ UNCHANGED <<proposals, rfpVendors, del, ai, call>>

----------------------------------------------------------------------------
(* deleteProposal *)

DelIdle ==
  [ pc |-> "idle", id |-> NoId, rfpId |-> <<>>, vendorId |-> NULL,
    resp |-> [status |-> 0, success |-> FALSE] ]

DelRespond(r, status, success) ==
  [r EXCEPT !.pc = "done", !.resp = [status |-> status, success |-> success]]

\* mutant: the handler goes on to the delete whatever findUnique returned
DeleteFindUnchecked(k) ==
  /\ del[k].pc = "idle"
  /\ k > 1 => del[k - 1].pc # "idle"
  /\ \E id \in ProposalIds \cup {MissingKey}, throws \in BOOLEAN :
       del' = [del EXCEPT ![k] =
         IF throws THEN DelRespond([@ EXCEPT !.id = id], 500, FALSE)
         ELSE IF id \notin ProposalIds THEN [@ EXCEPT !.pc = "delete", !.id = id]
         ELSE LET proposal == CHOOSE p \in proposals : p.id = id
              IN  [@ EXCEPT !.pc = "delete", !.id = id, !.rfpId = proposal.rfpId,
                            !.vendorId = proposal.vendorId]]
  /\ UNCHANGED <<inboundEmails, proposals, rfpVendors, req, ai, call>>

\* lines 7-23: await prismaClient.proposal.findUnique
DeleteFind(k) ==
  /\ del[k].pc = "idle"
  /\ k > 1 => del[k - 1].pc # "idle"
  /\ \E id \in ProposalIds \cup {MissingKey}, throws \in BOOLEAN :
       del' = [del EXCEPT ![k] =
         IF throws THEN DelRespond([@ EXCEPT !.id = id], 500, FALSE)
         ELSE IF id \notin ProposalIds THEN DelRespond([@ EXCEPT !.id = id], 404, FALSE)
         ELSE LET proposal == CHOOSE p \in proposals : p.id = id
              IN  [@ EXCEPT !.pc = "delete", !.id = id, !.rfpId = proposal.rfpId,
                            !.vendorId = proposal.vendorId]]
  /\ UNCHANGED <<inboundEmails, proposals, rfpVendors, req, ai, call>>

\* mutant: deleteMany({ where: { rfpId, vendorId } })
DeleteDeletePair(k) ==
  /\ del[k].pc = "delete"
  /\ \E throws \in BOOLEAN :
       IF throws \/ del[k].id \notin ProposalIds
       THEN /\ del' = [del EXCEPT ![k] = DelRespond(@, 500, FALSE)]
            /\ UNCHANGED <<proposals, inboundEmails>>
       ELSE /\ proposals' = {p \in proposals :
                               p.rfpId # del[k].rfpId \/ p.vendorId # del[k].vendorId}
            /\ inboundEmails' =
                 { IF e.proposalId \in ProposalIds
                      /\ \A p \in proposals' : p.id # e.proposalId
                   THEN [e EXCEPT !.proposalId = NoId] ELSE e : e \in inboundEmails }
            /\ del' = [del EXCEPT ![k] = [@ EXCEPT !.pc = "updateMany"]]
  /\ UNCHANGED <<rfpVendors, req, ai, call>>

\* lines 25-28: await prismaClient.proposal.delete
DeleteDelete(k) ==
  /\ del[k].pc = "delete"
  /\ \E throws \in BOOLEAN :
       IF throws \/ del[k].id \notin ProposalIds
       THEN /\ del' = [del EXCEPT ![k] = DelRespond(@, 500, FALSE)]
            /\ UNCHANGED <<proposals, inboundEmails>>
       ELSE /\ proposals' = {p \in proposals : p.id # del[k].id}
            /\ inboundEmails' = proposalDeleteCascade(inboundEmails, del[k].id)
            /\ del' = [del EXCEPT ![k] = [@ EXCEPT !.pc = "updateMany"]]
  /\ UNCHANGED <<rfpVendors, req, ai, call>>

\* lines 30-46: await prismaClient.rFPVendor.updateMany, then the response
DeleteStatus(k) ==
  /\ del[k].pc = "updateMany"
  /\ \E throws \in BOOLEAN :
       IF throws
       THEN /\ del' = [del EXCEPT ![k] = DelRespond(@, 500, FALSE)]
            /\ UNCHANGED rfpVendors
       ELSE /\ rfpVendors' = rfpVendorUpdateMany(rfpVendors, del[k].rfpId,
                                                 del[k].vendorId, "SENT")
            /\ del' = [del EXCEPT ![k] = DelRespond(@, 200, TRUE)]
  /\ UNCHANGED <<inboundEmails, proposals, req, ai, call>>

----------------------------------------------------------------------------
(* AIService: a call is one step, the await of this.model.generateContent   *)
(* and what follows it                                                     *)

NoRfpData == [budget |-> <<>>, deliveryDays |-> <<>>]
NoProposalData ==
  [totalPrice |-> <<>>, deliveryDays |-> <<>>, items |-> 0, paymentTerms |-> FALSE,
   warranty |-> FALSE, additionalServices |-> 0]
NoOut == [score |-> NaN, evaluation |-> NULL, parsed |-> <<>>, rfp |-> <<>>]

AiIdle ==
  [pc |-> "idle", op |-> NULL, rfpData |-> NoRfpData, proposalData |-> NoProposalData,
   prompt |-> <<>>, text |-> <<>>, out |-> NoOut]

\* return value, or the rejection of the promise; text is <<>> when the
\* model threw and <<t>> when it answered t
AiReturn(a, text, out) == [a EXCEPT !.pc = "returned", !.text = text, !.out = out]
AiThrow(a, text) == [a EXCEPT !.pc = "threw", !.text = text]

\* lines 375-406 on the parsed answer
Scored(a, text, scoringData) ==
  IF ~scoringData.ok
  THEN AiReturn(a, text, [NoOut EXCEPT
         !.score = Num(100 * calculateFallbackScore(a.rfpData, a.proposalData)),
         !.evaluation = "Automated scoring"])
  ELSE IF ~scoringData.object /\ scoringData.score.k = "null"
  THEN \* scoringData is null: reading .score throws into the outer catch
       AiThrow(a, text)
  ELSE AiReturn(a, text, [NoOut EXCEPT
         !.score = finalScore(IF scoringData.object THEN scoringData.score ELSE Missing),
         !.evaluation = "No evaluation provided"])

\* lines 219-414: generateContent throws, or answers with a text
scoreProposal ==
  /\ ai.pc = "call" /\ ai.op = "scoreProposal"
  /\ \/ ai' = AiThrow(ai, <<>>)
     \/ \E text \in ScoreTexts : ai' = Scored(ai, <<text>>, ScoreParsed[text])
  /\ UNCHANGED <<inboundEmails, proposals, rfpVendors, req, del, call>>

\* mutant: a failure of the model or of JSON.parse is passed on to the caller
structuredRFPOrThrow ==
  /\ ai.pc = "call" /\ ai.op = "structuredRFPFromNaturalLanguage"
  /\ \/ ai' = AiThrow(ai, <<>>)
     \/ \E text \in RfpTexts :
          ai' = IF Len(RfpParsed[text]) > 0
                THEN AiReturn(ai, <<text>>, [NoOut EXCEPT !.parsed = RfpParsed[text]])
                ELSE AiThrow(ai, <<text>>)
  /\ UNCHANGED <<inboundEmails, proposals, rfpVendors, req, del, call>>

\* lines 23-69: generateContent throws, or answers with a text; whatever is
\* thrown inside the try leads to generateFallbackStructuredRFP(prompt)
structuredRFPFromNaturalLanguage ==
  /\ ai.pc = "call" /\ ai.op = "structuredRFPFromNaturalLanguage"
  /\ \/ ai' = AiReturn(ai, <<>>, [NoOut EXCEPT !.rfp = <<FallbackRfp[ai.prompt]>>])
     \/ \E text \in RfpTexts :
          ai' = IF Len(RfpParsed[text]) > 0
                THEN AiReturn(ai, <<text>>, [NoOut EXCEPT !.parsed = RfpParsed[text]])
                ELSE AiReturn(ai, <<text>>, [NoOut EXCEPT !.rfp = <<FallbackRfp[ai.prompt]>>])
  /\ UNCHANGED <<inboundEmails, proposals, rfpVendors, req, del, call>>

\* the calls of structuredRFPFromNaturalLanguage
StructureCalls ==
  { [AiIdle EXCEPT !.pc = "call", !.op = "structuredRFPFromNaturalLanguage",
                   !.prompt = p] : p \in Prompts }

\* the calls of scoreProposal
ScoreCalls ==
  { [AiIdle EXCEPT !.pc = "call", !.op = "scoreProposal", !.rfpData = r,
                   !.proposalData = p] : r \in RfpDatas, p \in ProposalDatas }

----------------------------------------------------------------------------
(* The helpers of the controller, each called on its own: a call is one step *)

CallIdle == [pc |-> "idle", op |-> NULL, subject |-> <<>>, body |-> <<>>, out |-> <<>>]

\* subjects: none, no id, 'RFP ' and 'rfp id - ' labels, 'RFP' with no
\* separator, a bare UUID, the first half of a UUID
Subjects ==
  { <<>>,
    <<"h","i">>,
    <<"R","e",":"," ","R","F","P"," ","1","2","3","4","5","6","7","8","-","a","b","c","d","-","0","0","0","0","-","1","1","1","1","-","a","a","a","a","b","b","b","b","c","c","c","c">>,
    <<"r","f","p"," ","i","d"," ","-"," ","9","9","9","9","9","9","9","9","-","A","B","C","D","-","0","0","0","0","-","2","2","2","2","-","d","d","d","d","e","e","e","e","f","f","f","f">>,
    <<"R","F","P","1","2","3","4","5","6","7","8","-","a","b","c","d","-","0","0","0","0","-","1","1","1","1","-","a","a","a","a","b","b","b","b","c","c","c","c">>,
    <<"0","0","0","0","0","0","0","0","-","0","0","0","0","-","0","0","0","0","-","0","0","0","0","-","0","0","0","0","0","0","0","0","0","0","0","0"," ","f","y","i">>,
    <<"1","2","3","4","5","6","7","8","-","a","b","c","d">> }

\* bodies: none, no id, a bare upper-case UUID, 'RFP:' and 'RFP ID:' labels, the
\* second half of a UUID, UUIDs one character short or wrong, a UUID inside a
\* longer token
RfpBodies ==
  { <<>>,
    <<"o","k">>,
    <<"9","9","9","9","9","9","9","9","-","A","B","C","D","-","0","0","0","0","-","2","2","2","2","-","d","d","d","d","e","e","e","e","f","f","f","f">>,
    <<"R","F","P",":","1","2","3","4","5","6","7","8","-","a","b","c","d","-","0","0","0","0","-","1","1","1","1","-","a","a","a","a","b","b","b","b","c","c","c","c">>,
    <<"s","e","e"," ","R","F","P"," ","I","D",":","\n","9","9","9","9","9","9","9","9","-","A","B","C","D","-","0","0","0","0","-","2","2","2","2","-","d","d","d","d","e","e","e","e","f","f","f","f",","," ","t","h","a","n","k","s">>,
    <<"-","0","0","0","0","-","1","1","1","1","-","a","a","a","a","b","b","b","b","c","c","c","c">>,
    <<"R","F","P"," ","I","D",":"," ","1","2","3","4","5","6","7","-","a","b","c","d","-","0","0","0","0","-","1","1","1","1","-","a","a","a","a","b","b","b","b","c","c","c","c">>,
    <<"R","F","P"," ","I","D"," ","1","2","3","4","5","6","7","8","-","a","b","c","d","-","0","0","0","0","-","1","1","1","1","-","a","a","a","a","b","b","b","b","c","c","c","g">>,
    <<"x","1","2","3","4","5","6","7","8","-","a","b","c","d","-","0","0","0","0","-","1","1","1","1","-","a","a","a","a","b","b","b","b","c","c","c","c","9"," ","R","F","P"," ","I","D">> }

\* the calls of extractRFPId
ExtractCalls ==
  { [CallIdle EXCEPT !.pc = "call", !.op = "extractRFPId", !.subject = sub, !.body = b] :
      sub \in Subjects, b \in RfpBodies }

\* extractRFPId on these arguments, computed once
ExtractedId == [sub \in Subjects, b \in RfpBodies |-> extractRFPId(sub, b)]

\* lines 342-361
extractRFPIdCall ==
  /\ call.pc = "call" /\ call.op = "extractRFPId"
  /\ call' = [call EXCEPT !.pc = "returned", !.out = <<ExtractedId[call.subject, call.body]>>]
  /\ UNCHANGED <<inboundEmails, proposals, rfpVendors, req, del, ai>>

\* n times the character c
Repeat(c, n) == [i \in 1..n |-> c]

\* email bodies: empty, no field, fields under several patterns of a list, an
\* amount with no digit, terms of one blank, terms longer than TermsLen, and
\* a body longer than NotesLen
ParseBodies ==
  { <<>>,
    <<"h","e","l","l","o">>,
    <<"T","o","t","a","l",":"," ","R","s","."," ","1",",","2","5","0",".","5","0"," ","d","e","l","i","v","e","r","y",":"," ","7"," ","d","a","y","s">>,
    <<"c","o","s","t",":"," ","7"," ","p","r","i","c","e",":"," ","9"," ","R","s"," ","5"," ","t","o","t","a","l">>,
    <<"t","o","t","a","l",":"," ",",">>,
    <<"3"," ","y","e","a","r","s"," ","w","a","r","r","a","n","t","y","."," ","W","a","r","r","a","n","t","y",":"," ","2"," ","y","e","a","r","s">>,
    <<"1","0"," ","d","a","y","s"," ","d","e","l","i","v","e","r","y",","," ","t","i","m","e","l","i","n","e",":"," ","5"," ","d","a","y","s">>,
    <<"P","a","y","m","e","n","t",":"," ","n","e","t"," ","3","0","."," ","T","e","r","m","s",":"," ","x">>,
    <<"p","a","y","m","e","n","t",":"," "," ">>,
    <<"d","e","l","i","v","e","r","y",":"," ","0","0","7","d","a","y","s","\n","T","E","R","M","S"," ","-"," ","c","o","d">>,
    <<"t","e","r","m","s",":"," ">> \o Repeat("x", TermsLen + 5) \o <<"."," ","c","o","s","t",":"," ","7">>,
    <<"T","o","t","a","l",":"," ","R","s","."," ","1",",","2","5","0",".","5","0"," ">> \o Repeat("y", NotesLen - 20) \o <<" ","d","e","l","i","v","e","r","y",":"," ","7"," ","d","a","y","s">> }

\* the calls of fallbackParseProposal
ParseCalls ==
  { [CallIdle EXCEPT !.pc = "call", !.op = "fallbackParseProposal", !.body = b] :
      b \in ParseBodies }

\* fallbackParseProposal on these bodies, computed once
ParsedBody == [b \in ParseBodies |-> fallbackParseProposal(b)]

\* fallbackParser.ts, lines 5-84
fallbackParseProposalCall ==
  /\ call.pc = "call" /\ call.op = "fallbackParseProposal"
  /\ call' = [call EXCEPT !.pc = "returned", !.out = <<ParsedBody[call.body]>>]
  /\ UNCHANGED <<inboundEmails, proposals, rfpVendors, req, del, ai>>

----------------------------------------------------------------------------

Init ==
  /\ inboundEmails = {}
  /\ proposals = {}
  /\ rfpVendors = [k \in RfpVendorKeys |-> "SENT"]
  /\ req = [d \in Deliveries |-> Idle]
  /\ del = [k \in Deletes |-> DelIdle]
  /\ ai = AiIdle
  /\ call = CallIdle

Next ==
  \/ \E d \in Deliveries :
       \/ Receive(d) \/ Fetch(d) \/ GetRFP(d) \/ GetVendor(d) \/ CreateEmail(d)
       \/ LlmThrow(d) \/ LlmReturn(d) \/ UpdateProcessed(d)
       \/ FallbackCreate(d) \/ FallbackStatus(d) \/ FallbackUpdate(d) \/ ErrorUpdate(d)
  \/ \E k \in Deletes : DeleteFind(k) \/ DeleteDelete(k) \/ DeleteStatus(k)

Spec == Init /\ [][Next]_vars

\* AIService alone: one call, its arguments drawn from the sets above
InitAi ==
  /\ inboundEmails = {}
  /\ proposals = {}
  /\ rfpVendors = [k \in RfpVendorKeys |-> "SENT"]
  /\ req = [d \in Deliveries |-> Idle]
  /\ del = [k \in Deletes |-> DelIdle]
  /\ ai \in ScoreCalls \cup StructureCalls
  /\ call = CallIdle

\* the awaits of delivery d: each of them returns or throws
Await(d) ==
  \/ Fetch(d) \/ GetRFP(d) \/ GetVendor(d) \/ CreateEmail(d)
  \/ LlmThrow(d) \/ LlmReturn(d) \/ UpdateProcessed(d)
  \/ FallbackCreate(d) \/ FallbackStatus(d) \/ FallbackUpdate(d) \/ ErrorUpdate(d)

\* handleInboundEmail alone: deleteProposal shares only the store with it, and
\* each store call of the handler may throw in every state of the store
NextLive == \E d \in Deliveries : Receive(d) \/ Await(d)

\* every pending await of handleInboundEmail settles
SpecLive == Init /\ [][NextLive]_vars /\ \A d \in Deliveries : WF_vars(Await(d))

\* the helpers alone: one call, its arguments drawn from the sets above
InitUtil ==
  /\ inboundEmails = {}
  /\ proposals = {}
  /\ rfpVendors = [k \in RfpVendorKeys |-> "SENT"]
  /\ req = [d \in Deliveries |-> Idle]
  /\ del = [k \in Deletes |-> DelIdle]
  /\ ai = AiIdle
  /\ call \in ExtractCalls \cup ParseCalls

NextUtil == extractRFPIdCall \/ fallbackParseProposalCall

SpecUtil == InitUtil /\ [][NextUtil]_vars

NextAi == scoreProposal \/ structuredRFPFromNaturalLanguage

SpecAi == InitAi /\ [][NextAi]_vars

----------------------------------------------------------------------------
(* Properties *)

HasRow(id) == \E e \in inboundEmails : e.id = id
RowOf(id) == CHOOSE e \in inboundEmails : e.id = id
Received(d) == req[d].pc # "idle"
\* the step in which delivery d sends its response
Responds(d) == req[d].pc # "done" /\ req'[d].pc = "done"

\* C1: whenever a delivery is about to call, or has called,
\* rfpService.processVendorProposal, the InboundEmail row it created for the
\* email exists, and at the call the row has processed = false.
C1_ExtractionAfterPersist ==
  \A d \in Deliveries :
    (req[d].pc = "llm" \/ req[d].llmCalls > 0) =>
      /\ HasRow(req[d].storedEmail)
      /\ RowOf(req[d].storedEmail).emailId = req[d].emailId
      /\ req[d].pc = "llm" => ~RowOf(req[d].storedEmail).processed

C1_Witness ==
  \E d \in Deliveries : req[d].llmCalls > 0 /\ HasRow(req[d].storedEmail)

\* C2: no step removes an InboundEmail row or changes its emailId, from,
\* subject or rawBody, whatever the extraction and the fallback do, and the
\* row a delivery stored is there when the delivery responds.
C2_RowKept ==
  [][ /\ \A e \in inboundEmails : \E f \in inboundEmails' :
           /\ f.id = e.id /\ f.emailId = e.emailId /\ f.from = e.from
           /\ f.subject = e.subject /\ f.rawBody = e.rawBody
      /\ \A d \in Deliveries :
           (Responds(d) /\ req'[d].storedEmail # NoId) =>
             \E f \in inboundEmails' :
               f.id = req'[d].storedEmail /\ f.emailId = req'[d].emailId ]_vars

C2_Witness ==
  \E d \in Deliveries :
    /\ req[d].resp.message = "Failed to process vendor proposal"
    /\ HasRow(req[d].storedEmail)
    /\ Len(RowOf(req[d].storedEmail).rawBody) > 0

\* C3: every InboundEmail row is one row with one proposalId, and no two
\* rows hold the same non-null proposalId, in every state deliveries and
\* deletions reach.
C3_ProposalIdUnique ==
  \A e1, e2 \in inboundEmails :
    /\ e1.id = e2.id => e1 = e2
    /\ (e1.proposalId # NoId /\ e1.proposalId = e2.proposalId) => e1 = e2

C3_Witness ==
  /\ \E e1, e2 \in inboundEmails :
       e1.proposalId # NoId /\ e2.proposalId # NoId /\ e1.id # e2.id
  /\ \E k \in Deletes : del[k].pc = "done" /\ del[k].resp.status = 200

\* C4: at most one InboundEmail row exists for an emailId; of the deliveries
\* of one email_id at most one stores the row, and a delivery that stored no
\* row has called no extraction, created no Proposal and set no RFPVendor status.
C4_AtLeastOnceSafe ==
  /\ \A e1, e2 \in inboundEmails : e1.emailId = e2.emailId => e1 = e2
  /\ \A d1, d2 \in Deliveries :
       (d1 # d2 /\ Received(d1) /\ Received(d2) /\ req[d1].emailId = req[d2].emailId)
         => (req[d1].storedEmail = NoId \/ req[d2].storedEmail = NoId)
  /\ \A d \in Deliveries :
       req[d].storedEmail = NoId =>
         (req[d].llmCalls = 0 /\ req[d].created = {} /\ req[d].statusSet = {})

C4_Witness ==
  \E d1, d2 \in Deliveries :
    /\ d1 # d2 /\ req[d1].emailId = req[d2].emailId
    /\ req[d1].pc = "done" /\ req[d1].created # {}
    /\ req[d2].pc = "done" /\ req[d2].storedEmail = NoId
    /\ req[d2].resp.message = "error"

\* C5: a delivery creates a Proposal with usedFallbackParsing = true only if
\* its call of rfpService.processVendorProposal threw, never after that call
\* returned a result.
C5_FallbackOnlyAfterLlmThrew ==
  \A d \in Deliveries :
    FallbackProposalKey(d) \in req[d].created => ~req[d].llmReturned

\* C6: a Proposal the handler creates carries the id of the RFP and of the
\* vendor that its two lookups found, and both exist.
C6_ProposalReferences ==
  \A d \in Deliveries :
    /\ req[d].created # {} =>
         /\ req[d].rfpId \in Rfps
         /\ \E v \in Vendors : v.id = req[d].vendorId
    /\ \A p \in proposals :
         p.id = FallbackProposalKey(d) =>
           (p.rfpId = req[d].rfpId /\ p.vendorId = req[d].vendorId)

C6_Witness ==
  \E d \in Deliveries, p \in proposals :
    p.id = FallbackProposalKey(d) /\ p.rfpId = RfpB /\ p.vendorId = "v2"

\* C7: every Proposal of the fallback path has usedFallbackParsing = true,
\* aiScore = null, aiEvaluation = null and, as extractedData, the result of
\* fallbackParseProposal on the rawBody of the email the delivery stored.
C7_FallbackProposalShape ==
  \A d \in Deliveries, p \in proposals :
    p.id = FallbackProposalKey(d) =>
      /\ p.usedFallbackParsing
      /\ p.aiScore = <<>>
      /\ p.aiEvaluation = NULL
      /\ HasRow(req[d].storedEmail)
      /\ p.extractedData = FallbackParsed[RowOf(req[d].storedEmail).rawBody]

C7_Witness ==
  \E d \in Deliveries, p \in proposals :
    /\ p.id = FallbackProposalKey(d)
    /\ p.extractedData.totalPrice = <<[nan |-> FALSE, cents |-> 5000]>>

\* C8: the fallback path's status update comes after its Proposal was
\* created, sets the RFPVendor rows of the delivery's (rfpId, vendorId) pair
\* to RESPONDED and leaves every other row as it was.
C8_StatusAfterProposal ==
  [][ \A d \in Deliveries :
        (req[d].pc = "fbStatus" /\ req'[d].pc # "fbStatus") =>
          /\ FallbackProposalKey(d) \in req[d].created
          /\ \A k \in RfpVendorKeys :
               rfpVendors'[k] # rfpVendors[k] =>
                 (k = <<req[d].rfpId, req[d].vendorId>> /\ rfpVendors'[k] = "RESPONDED") ]_vars

C8_Witness ==
  \E d \in Deliveries :
    /\ req[d].pc = "fbUpdate"
    /\ <<req[d].rfpId, req[d].vendorId>> \in req[d].statusSet
    /\ rfpVendors[<<req[d].rfpId, req[d].vendorId>>] = "RESPONDED"
    /\ \E k \in RfpVendorKeys : rfpVendors[k] = "SENT"

\* C9: when a delivery that stored its email responds, the row records the
\* outcome: processed, the returned proposal and no processingError if the
\* LLM extraction succeeded; else processed, the fallback proposal and a
\* processingError if the fallback created one; else not processed, no
\* proposal and a processingError.
C9_OutcomeRecorded ==
  [][ \A d \in Deliveries :
        (Responds(d) /\ req'[d].storedEmail # NoId) =>
          \E e \in inboundEmails' :
            /\ e.id = req'[d].storedEmail
            /\ IF req'[d].llmReturned
               THEN e.processed /\ e.proposalId = req'[d].result
                    /\ e.processingError = NULL
               ELSE IF req'[d].fallbackProposal # NoId
               THEN e.processed /\ e.proposalId = req'[d].fallbackProposal
                    /\ e.processingError # NULL
               ELSE ~e.processed /\ e.proposalId = NoId
                    /\ e.processingError # NULL ]_vars

\* C10: every response of handleInboundEmail has HTTP status 200.
C10_Always200 ==
  \A d \in Deliveries : req[d].pc = "done" => req[d].resp.status = 200

C10_Witness ==
  /\ \E d \in Deliveries : req[d].pc = "done" /\ req[d].resp.message = "error"
  /\ \E d \in Deliveries :
       req[d].pc = "done" /\ req[d].resp.message = "Failed to process vendor proposal"

\* C11: a delivery whose event type is not email.received responds in its
\* first step with status 200, success = true and 'Ignored non-received
\* event': it fetches nothing from Resend, looks up no RFP and no vendor, calls
\* no extraction, and the step leaves every table as it was.
C11_IgnoredEvent ==
  [][ \A d \in Deliveries :
        (req[d].pc = "idle" /\ req'[d].pc # "idle" /\ req'[d].type # "email.received") =>
          /\ req'[d].pc = "done"
          /\ req'[d].resp = [status |-> 200, success |-> TRUE,
                             message |-> "Ignored non-received event"]
          /\ req'[d].emailData = NoEmail /\ req'[d].rfpId = <<>>
          /\ req'[d].vendorId = NULL /\ req'[d].storedEmail = NoId
          /\ req'[d].llmCalls = 0 /\ req'[d].created = {} /\ req'[d].statusSet = {}
          /\ UNCHANGED <<inboundEmails, proposals, rfpVendors>> ]_vars

C11_Witness ==
  \E d \in Deliveries :
    /\ req[d].pc = "done" /\ req[d].type = "email.sent"
    /\ req[d].resp.message = "Ignored non-received event"
    /\ inboundEmails # {}

\* C12: a delivery that found no RFP id, no RFP of that id or no vendor of
\* the sender has stored no InboundEmail, called no extraction, created no
\* Proposal and set no RFPVendor status; every InboundEmail row carries the
\* RFP id extracted from its subject and body, which is the id of an RFP, and
\* the id of the vendor whose address is its sender's.
C12_IdentityBeforePersistence ==
  /\ \A d \in Deliveries :
       req[d].resp.message \in {"no RFP ID found", "RFP not found", "no matching vendor found"}
         => /\ req[d].storedEmail = NoId /\ req[d].llmCalls = 0
            /\ req[d].created = {} /\ req[d].statusSet = {}
            /\ \A e \in inboundEmails : e.id # EmailKey(d)
  /\ \A d \in Deliveries :
       req[d].pc \in {"create", "llm", "update", "fbCreate", "fbStatus", "fbUpdate", "errUpdate"}
         => /\ req[d].rfpId \in Rfps
            /\ \E v \in Vendors : v.id = req[d].vendorId
  /\ \A e \in inboundEmails :
       /\ RfpIdIn[<<e.subject, e.rawBody>>] = <<e.rfpId>>
       /\ getRFPById(e.rfpId) = <<e.rfpId>>
       /\ getVendorByEmail(VendorEmailOf[e.from]) = <<e.vendorId>>

C12_Witness ==
  /\ \E d \in Deliveries :
       req[d].pc = "done" /\ req[d].resp.message = "no matching vendor found"
  /\ \E d \in Deliveries : req[d].pc = "done" /\ req[d].resp.message = "RFP not found"

\* C13: a deleteProposal call whose id names no Proposal ends at its lookup:
\* unless the lookup itself failed (500) it responds 404 with success = false,
\* and the step leaves every Proposal, InboundEmail and RFPVendor row as it was.
C13_DeleteMissing ==
  [][ \A k \in Deletes :
        (del[k].pc = "idle" /\ del'[k].pc # "idle" /\ del'[k].id \notin ProposalIds) =>
          /\ del'[k].pc = "done"
          /\ ~del'[k].resp.success
          /\ del'[k].resp.status # 500 => del'[k].resp.status = 404
          /\ UNCHANGED <<inboundEmails, proposals, rfpVendors>> ]_vars

C13_Witness ==
  \E k \in Deletes :
    /\ del[k].pc = "done" /\ del[k].resp.status = 404 /\ del[k].id = MissingKey
    /\ proposals # {}

C15_ScoreInRange ==
  (ai.pc = "returned" /\ ai.op = "scoreProposal") =>
    (~ai.out.score.nan /\ ai.out.score.h >= 0 /\ ai.out.score.h <= 100 * 100)

\* C16: a call of structuredRFPFromNaturalLanguage never ends in an error,
\* and when the model threw or its answer, the code fences removed, is not
\* valid JSON, the call returns generateFallbackStructuredRFP(prompt).
C16_StructureNeverFails ==
  ai.op = "structuredRFPFromNaturalLanguage" =>
    /\ ai.pc # "threw"
    /\ (ai.pc = "returned" /\ (ai.text = <<>> \/ ~JsonValid(rfpCleanup(ai.text[1])))) =>
         /\ ai.out.parsed = <<>>
         /\ ai.out.rfp = <<generateFallbackStructuredRFP(ai.prompt)>>

C16_Witness ==
  /\ ai.op = "structuredRFPFromNaturalLanguage" /\ ai.pc = "returned"
  /\ ai.text # <<>> /\ ai.out.parsed = <<>>
  /\ Len(ai.out.rfp) = 1 /\ Len(ai.out.rfp[1].items) = 2
  /\ ai.out.rfp[1].budget = <<NaN>>

\* C17: in every state that deliveries and deleteProposal calls reach, an
\* InboundEmail row with processed = true holds the id of a Proposal that exists.
C17_ProcessedHasProposal ==
  \A e \in inboundEmails :
    e.processed => (e.proposalId # NoId /\ e.proposalId \in ProposalIds)

\* a delivery that has not started, or has ended without storing the email,
\* or has ended on the fallback path with its success response
FallbackCompleted(d) ==
  \/ req[d].pc = "idle"
  \/ req[d].pc = "done" /\ req[d].storedEmail = NoId /\ req[d].resp.message # "error"
  \/ req[d].pc = "done" /\ req[d].resp.message = "Proposal created with fallback parsing"
       /\ ~req[d].llmReturned

\* a deleteProposal call that has not started, or has ended with 200 or 404
DeleteCompleted(k) ==
  \/ del[k].pc = "idle"
  \/ del[k].pc = "done" /\ del[k].resp.status \in {200, 404}

\* C18: when every delivery that ran has completed on the fallback path and
\* every deleteProposal call that ran has completed, an RFPVendor row has
\* status RESPONDED exactly when a Proposal of its (rfpId, vendorId) pair exists.
C18_RespondedIffProposal ==
  ((\A d \in Deliveries : FallbackCompleted(d)) /\ (\A k \in Deletes : DeleteCompleted(k)))
    => \A key \in RfpVendorKeys :
         (rfpVendors[key] = "RESPONDED") <=>
           (\E p \in proposals : p.rfpId = key[1] /\ p.vendorId = key[2])

\* C19: one execution of handleInboundEmail creates at most one Proposal.
C19_AtMostOneProposal ==
  \A d \in Deliveries : Cardinality(req[d].created) <= 1

\* C20: a delivery that ended with the both-failed response (success = false,
\* the stored email left at processed = false) created no Proposal and set no
\* RFPVendor status.
C20_BothFailedNoProposal ==
  \A d \in Deliveries :
    (req[d].pc = "done" /\ req[d].resp.message = "Failed to process vendor proposal") =>
      /\ HasRow(req[d].storedEmail) /\ ~RowOf(req[d].storedEmail).processed
      /\ req[d].created = {} /\ req[d].statusSet = {}

\* C21: no step of deleteProposal removes an InboundEmail. Every row is still
\* there after the step with the same emailId and rawBody; the row that was
\* linked to the deleted Proposal has proposalId cleared, and every other row
\* keeps its proposalId.
C21_DeleteKeepsEmail ==
  [][\A k \in Deletes :
       del'[k] # del[k] =>
         \A e \in inboundEmails :
           \E f \in inboundEmails' :
             /\ f.id = e.id /\ f.emailId = e.emailId /\ f.rawBody = e.rawBody
             /\ f.proposalId =
                  (IF e.proposalId \in ProposalIds \ {p.id : p \in proposals'}
                   THEN NoId ELSE e.proposalId)
             /\ Cardinality(inboundEmails') = Cardinality(inboundEmails)]_vars

\* a Proposal was deleted, and the email that led to it is still stored,
\* marked processed, with no Proposal linked
C21_Witness ==
  /\ \E k \in Deletes : del[k].pc = "done" /\ del[k].resp.status = 200
  /\ \E e \in inboundEmails :
       e.processed /\ e.proposalId = NoId /\ Len(e.rawBody) > 0

\* C22: every delivery that handleInboundEmail received sends a response in
\* the end, given that each of its awaits settles, and sends one only: after
\* the response the handler takes no further step and the response stays.
C22_OneResponse ==
  /\ \A d \in Deliveries : Received(d) ~> (req[d].pc = "done" /\ req[d].resp.status # 0)
  /\ [][\A d \in Deliveries : req[d].pc = "done" => req'[d] = req[d]]_vars

\* a delivery went through every await of the longest path (look-ups, create,
\* extraction threw, fallback create and status, update threw, outer catch)
\* and responded
C22_Witness ==
  \E d \in Deliveries :
    /\ req[d].pc = "done" /\ req[d].resp.message = "error"
    /\ req[d].fallbackProposal # NoId /\ req[d].statusSet # {}

\* C23: when the webhook payload carried neither text nor html and
\* resend.emails.receiving.get threw, returned no data or returned an email
\* with an empty body, the handler responds at once with success = false and
\* 'Email body not available': it goes through no RFP look-up and no vendor
\* look-up, and the store is left as it was.
C23_NoBodyNoWork ==
  [][\A d \in Deliveries :
       (/\ req[d].pc = "fetch" /\ req'[d].pc # "fetch"
        /\ Len(req[d].emailData.text) = 0 /\ Len(req[d].emailData.html) = 0
        /\ \/ req'[d].receivedEmail[1].kind \in {"throw", "nodata"}
           \/ Len(TextOrHtml(req'[d].receivedEmail[1])) = 0)
       => /\ req'[d].pc = "done"
          /\ req'[d].resp = [status |-> 200, success |-> FALSE,
                             message |-> "Email body not available"]
          /\ req'[d].rfpId = <<>> /\ req'[d].vendorId = NULL
          /\ req'[d].storedEmail = NoId
          /\ UNCHANGED <<inboundEmails, proposals, rfpVendors>>]_vars

\* the receiving API answered with an email that has no body, and the handler
\* has responded, while another delivery has stored its email
C23_Witness ==
  \E d \in Deliveries :
    /\ req[d].pc = "done" /\ req[d].resp.message = "Email body not available"
    /\ req[d].receivedEmail # <<>> /\ req[d].receivedEmail[1].kind = "data"
    /\ inboundEmails # {}

\* the bodies that hold an HTML tag, /<[^>]+>/
Tagged == {b \in Bodies : ReSearch(TagRe, b) # NotFound}

\* C24: the body of an email that came with html and no text is converted
\* before use: the rawBody stored for it, the body the handler holds for the
\* extraction and the rawEmailBody of its Proposal contain no HTML tag.
C24_HtmlConverted ==
  \A p \in Payloads :
    (Len(p.text) = 0 /\ Len(p.html) > 0) =>
      /\ \A e \in inboundEmails : e.emailId = p.email_id => e.rawBody \notin Tagged
      /\ \A d \in Deliveries :
           (req[d].emailId = p.email_id /\ req[d].pc = "llm") =>
             req[d].emailBody \notin Tagged

\* a UUID-shaped token of t starts at i: 8-4-4-4-12 hexadecimal digits of
\* either case
HexDigit == Digit \cup {"a","b","c","d","e","f"} \cup {"A","B","C","D","E","F"}
UuidAt(t, i) ==
  /\ i >= 1 /\ i + 35 <= Len(t)
  /\ \A k \in 0..35 :
       IF k \in {8, 13, 18, 23} THEN t[i + k] = "-" ELSE t[i + k] \in HexDigit
\* the word w (in lower case) stands at j..j+Len(w)-1 of t, in either case
WordAt(t, j, w) ==
  /\ j >= 1 /\ j + Len(w) - 1 <= Len(t)
  /\ \A k \in 1..Len(w) : LowerChar(t[j + k - 1]) = w[k]
\* t[a..b] is a non-empty run of colons, hyphens and white space
Separated(t, a, b) == a <= b /\ \A k \in a..b : t[k] \in {":", "-"} \cup Space
\* the UUID at i is labelled 'RFP ID', or is preceded by 'RFP'
LabelledRfpId(t, i) ==
  \E j \in 1..i, a \in 1..i :
    /\ WordAt(t, j, <<"r","f","p">>) /\ j + 3 <= a
    /\ \A k \in (j + 3)..(a - 1) : t[k] \in Space
    /\ WordAt(t, a, <<"i","d">>) /\ Separated(t, a + 2, i - 1)
LabelledRfp(t, i) ==
  \E j \in 1..i : WordAt(t, j, <<"r","f","p">>) /\ Separated(t, j + 3, i - 1)
Uuids(t) == {i \in 1..Len(t) : UuidAt(t, i)}
First(S) == CHOOSE i \in S : \A j \in S : i <= j
\* where the UUID that the claim names starts (Uuids(t) is not empty)
ChosenUuid(t) ==
  IF \E i \in Uuids(t) : LabelledRfpId(t, i)
  THEN First({i \in Uuids(t) : LabelledRfpId(t, i)})
  ELSE IF \E i \in Uuids(t) : LabelledRfp(t, i)
  THEN First({i \in Uuids(t) : LabelledRfp(t, i)})
  ELSE First(Uuids(t))

\* C25: extractRFPId returns null exactly when subject + ' ' + body holds no
\* UUID-shaped token; otherwise it returns, as it stands in the text, the
\* first UUID labelled 'RFP ID', else the first UUID preceded by 'RFP', else
\* the first UUID, letters matched in either case.
C25_ExtractRFPId ==
  (call.op = "extractRFPId" /\ call.pc = "returned") =>
    LET t == call.subject \o <<" ">> \o call.body
    IN  /\ (call.out[1] = <<>>) <=> (Uuids(t) = {})
        /\ Uuids(t) # {} =>
             call.out[1] = <<SubSeq(t, ChosenUuid(t), ChosenUuid(t) + 35)>>

\* the text holds a UUID after 'RFP ' and, later, an upper-case one after
\* 'RFP ID:' and a line break: the later one is returned
C25_Witness ==
  /\ call.op = "extractRFPId" /\ call.pc = "returned"
  /\ call.out[1] = <<RfpB>>
  /\ LET t == call.subject \o <<" ">> \o call.body
     IN  /\ Cardinality(Uuids(t)) = 2 /\ ChosenUuid(t) # First(Uuids(t))
         /\ LabelledRfp(t, First(Uuids(t)))

\* the patterns of a list that match the body, by their place in the list
Matching(patterns, b) == {k \in 1..Len(patterns) : ReSearch(patterns[k], b).found}
\* match[1] of the first pattern of the list that matches
Decisive(patterns, b) ==
  Group1(ReSearch(patterns[First(Matching(patterns, b))], b), b)
\* the field is null when no pattern of its list matches the body, and else
\* holds value(m) for m the match[1] of the first that does
FieldOf(field, patterns, b, value(_)) ==
  IF Matching(patterns, b) = {} THEN field = <<>>
  ELSE field = <<value(Decisive(patterns, b))>>

\* C26: fallbackParseProposal returns for every body, with items empty and
\* notes the first 500 characters of the body; totalPrice, deliveryDays,
\* warrantyYears and paymentTerms are null unless a pattern of the field's
\* list matches, and then the first pattern of the list that matches decides:
\* parseFloat of its group without commas, parseInt of its group, or its
\* group trimmed and cut to 100 characters.
C26_FallbackParseTotal ==
  (call.op = "fallbackParseProposal" /\ call.pc # "call") =>
    /\ call.pc = "returned"
    /\ LET b == call.body
           r == call.out[1]
       IN  /\ r.items = <<>>
           /\ Len(r.notes) = (IF Len(b) < 500 THEN Len(b) ELSE 500)
           /\ \A i \in 1..Len(r.notes) : r.notes[i] = b[i]
           /\ FieldOf(r.totalPrice, pricePatterns, b,
                      LAMBDA m : parseFloat(SelectSeq(m, LAMBDA c : c # ",")))
           /\ FieldOf(r.deliveryDays, deliveryPatterns, b, parseInt)
           /\ FieldOf(r.warrantyYears, warrantyPatterns, b, parseInt)
           /\ FieldOf(r.paymentTerms, paymentPatterns, b,
                      LAMBDA m : SubSeq(trim(m), 1,
                                        IF Len(trim(m)) < 100 THEN Len(trim(m)) ELSE 100))
           /\ r.paymentTerms # <<>> => Len(r.paymentTerms[1]) <= 100

\* the body matches a later pattern of the price list before, in the text,
\* it matches an earlier one, and the earlier pattern of the list decided
C26_Witness ==
  /\ call.op = "fallbackParseProposal" /\ call.pc = "returned"
  /\ Cardinality(Matching(pricePatterns, call.body)) >= 2
  /\ ReSearch(pricePatterns[First(Matching(pricePatterns, call.body))], call.body).from
       > ReSearch(pricePatterns[4], call.body).from
  /\ call.out[1].totalPrice = <<[nan |-> FALSE, cents |-> 500]>>
  /\ call.out[1].paymentTerms = <<>>

====
